---- MODULE Spec2Model ----
(***************************************************************************)
(* Model of ldpd/labelmapping.c: the LDP Label Message encoder             *)
(* (send_labelmessage and the TLV generators) and decoder                  *)
(* (recv_labelmessage and tlv_decode_fec_elm).                             *)
(***************************************************************************)
EXTENDS Integers, Sequences, FiniteSets, TLC

(***************************************************************************)
(* Bounds of the model.                                                    *)
(***************************************************************************)
\* longest mapping queue handed to send_labelmessage
MaxQueue == 3
\* most FEC elements in the FEC TLV of a received message
MaxElems == 2
\* most optional TLVs after the FEC TLV of a received message
MaxTlvs == 2

(***************************************************************************)
(* Program constants (ldp.h, ldpd.h, mpls.h values used by the source).    *)
(***************************************************************************)
LDP_HDR_SIZE == 10
LDP_HDR_DEAD_LEN == 4
LDP_MSG_SIZE == 8
LDP_MSG_DEAD_LEN == 4
TLV_HDR_SIZE == 4
LABEL_TLV_SIZE == 8
LABEL_TLV_LEN == 4
REQID_TLV_SIZE == 8
REQID_TLV_LEN == 4
STATUS_SIZE == 14
STATUS_TLV_LEN == 10
PW_STATUS_TLV_SIZE == 8
PW_STATUS_TLV_LEN == 4
FEC_ELM_WCARD_LEN == 1
FEC_ELM_PREFIX_MIN_LEN == 4
FEC_PWID_ELM_MIN_LEN == 8
FEC_PWID_SIZE == 4
FEC_ELM_TWCARD_MIN_LEN == 3
FEC_SUBTLV_IFMTU_SIZE == 4
SUBTLV_HDR_SIZE == 2
SUBTLV_IFMTU == 1

MSG_TYPE_LABELMAPPING == 1024
MSG_TYPE_LABELREQUEST == 1025
MSG_TYPE_LABELWITHDRAW == 1026
MSG_TYPE_LABELRELEASE == 1027
MSG_TYPE_LABELABORTREQ == 1028

TLV_TYPE_FEC == 256
TLV_TYPE_HOPCOUNT == 259
TLV_TYPE_PATHVECTOR == 260
TLV_TYPE_GENERICLABEL == 512
TLV_TYPE_ATMLABEL == 513
TLV_TYPE_FRLABEL == 514
TLV_TYPE_STATUS == 768
TLV_TYPE_LABELREQUEST == 1536
TLV_TYPE_PW_STATUS == 2410
UNKNOWN_FLAG == 32768

MAP_TYPE_WILDCARD == 1
MAP_TYPE_PREFIX == 2
MAP_TYPE_TYPED_WCARD == 5
MAP_TYPE_PWID == 128

AF_INET == 2
AF_INET6 == 10
AF_IPV4 == 1
AF_IPV6 == 2
IPV4_MAX_BITLEN == 32
IPV6_MAX_BITLEN == 128

CONTROL_WORD_FLAG == 32768
PW_TWCARD_RESERVED_BIT == 32768

MPLS_LABEL_IPV4_EXPLICIT_NULL == 0
MPLS_LABEL_IPV6_EXPLICIT_NULL == 2
MPLS_LABEL_IMPLICIT_NULL == 3
MPLS_LABEL_RESERVED_MAX == 15
MPLS_LABEL_MAX == 1048575
\* UINT32_MAX; a uint32_t x >= 2^31 is kept as x - 2^32
NO_LABEL == -1

LDP_VERSION == 1

\* width of uint16_t and uint8_t arithmetic
U16 == 65536
U8 == 256

MsgTypes == {MSG_TYPE_LABELMAPPING, MSG_TYPE_LABELREQUEST,
             MSG_TYPE_LABELWITHDRAW, MSG_TYPE_LABELRELEASE,
             MSG_TYPE_LABELABORTREQ}

(***************************************************************************)
(* Byte-level helpers: network byte order, bit tests.                      *)
(***************************************************************************)
htons(x) == << (x \div 256) % 256, x % 256 >>

\* a uint32_t is kept as x when x < 2^31 and as x - 2^32 otherwise
htonl(x) ==
    LET y == IF x < 0 THEN x + 2147483647 + 1 ELSE x
    IN  << (IF x < 0 THEN 128 ELSE 0) + ((y \div 16777216) % 128),
           (y \div 65536) % 256, (y \div 256) % 256, y % 256 >>

ntohs(b) == b[1] * 256 + b[2]

ntohl(b) ==
    LET y == (b[1] % 128) * 16777216 + b[2] * 65536 + b[3] * 256 + b[4]
    IN  IF b[1] >= 128 THEN y - 2147483647 - 1 ELSE y

\* unsigned comparisons of uint32_t values
U32Gt(a, b) == IF (a < 0) = (b < 0) THEN a > b ELSE a < 0

U32Le(a, b) == ~U32Gt(a, b)

\* (x & bit) != 0 for a single-bit mask
BitSet(x, bit) == (x \div bit) % 2 = 1

PREFIX_SIZE(x) == (x + 7) \div 8

RECURSIVE Flatten(_)
Flatten(ss) == IF ss = << >> THEN << >> ELSE Head(ss) \o Flatten(Tail(ss))

RECURSIVE SumLen(_)
SumLen(ss) == IF ss = << >> THEN 0 ELSE Len(Head(ss)) + SumLen(Tail(ss))

(***************************************************************************)
(* struct map.  The union members are kept as separate fields; the code    *)
(* reads only the member selected by type.                                 *)
(***************************************************************************)
ZeroMap ==
    [type |-> 0, msg_id |-> 0, flags |-> {}, label |-> 0, requestid |-> 0,
     pw_status |-> 0, af |-> 0, prefixlen |-> 0, prefix |-> << >>,
     pw_type |-> 0, group_id |-> 0, pwid |-> 0, ifmtu |-> 0,
     tw_type |-> 0, tw_af |-> 0, tw_pw_type |-> 0]

(***************************************************************************)
(* ibuf: a write buffer of fixed capacity.  A PDU buffer is                *)
(* [max, wpos, hdr, msgs]: capacity, bytes written, whether the LDP header *)
(* was written, and the messages appended so far (each with its record,    *)
(* the msg_size put in its header and the buffer offsets it spans).        *)
(***************************************************************************)
NoBuf == [max |-> 0, wpos |-> 0, hdr |-> FALSE, msgs |-> << >>]

\* no tlv_decode_fec_elm in progress
NoCur == [map |-> ZeroMap, off |-> 0, pw_len |-> 0, odd |-> FALSE]

ibuf_open(len) == [max |-> len, wpos |-> 0, hdr |-> FALSE, msgs |-> << >>]

\* ibuf_add: -1 (err TRUE) when the bytes do not fit, else appended
ibuf_add(b, bytes) ==
    IF b.wpos + Len(bytes) > b.max
    THEN [buf |-> b, err |-> TRUE]
    ELSE [buf |-> [b EXCEPT !.wpos = @ + Len(bytes)], err |-> FALSE]

\* a generator run on a = [buf, err]: its ibuf_add calls in order, each
\* OR-ed into err; oom is an allocation failure of the generator as a whole.
\* (CHOOSE over a singleton names an intermediate value.)
RECURSIVE AddPieces(_, _)
AddPieces(a, pieces) ==
    IF pieces = << >> THEN a
    ELSE CHOOSE res \in
            { AddPieces([buf |-> r.buf, err |-> r.err], Tail(pieces)) :
                r \in { [buf |-> x.buf, err |-> a.err \/ x.err] :
                          x \in {ibuf_add(a.buf, Head(pieces))} } } : TRUE

Gen(a, pieces, oom) ==
    CHOOSE res \in { IF oom THEN [buf |-> x.buf, err |-> TRUE]
                     ELSE AddPieces(x, pieces) : x \in {a} } : TRUE

(***************************************************************************)
(* TLV generators.  Each returns the byte strings it hands to ibuf_add.    *)
(***************************************************************************)
\* struct ldp_hdr: version, length, lsr_id, lspace_id
gen_ldp_hdr(size) ==
    << htons(LDP_VERSION) \o htons(size) \o <<0, 0, 0, 0>> \o <<0, 0>> >>

\* struct ldp_msg: type, length, id
gen_msg_hdr(type, size) ==
    << htons(type) \o htons((size - LDP_MSG_DEAD_LEN) % U16) \o htonl(0) >>

gen_label_tlv(label) ==
    << htons(TLV_TYPE_GENERICLABEL) \o htons(LABEL_TLV_LEN) \o htonl(label) >>

gen_reqid_tlv(reqid) ==
    << htons(TLV_TYPE_LABELREQUEST) \o htons(REQID_TLV_LEN) \o htonl(reqid) >>

gen_pw_status_tlv(status) ==
    << htons(TLV_TYPE_PW_STATUS) \o htons(PW_STATUS_TLV_LEN) \o htonl(status) >>

\* struct status_tlv: type, length, status_code, msg_id, msg_type
gen_status_tlv(code, msg_id, msg_type) ==
    << htons(TLV_TYPE_STATUS) \o htons(STATUS_TLV_LEN) \o htonl(code)
       \o htonl(msg_id) \o htons(msg_type) >>

len_fec_tlv(map) ==
    TLV_HDR_SIZE +
    CASE map.type = MAP_TYPE_WILDCARD -> FEC_ELM_WCARD_LEN
      [] map.type = MAP_TYPE_PREFIX ->
            FEC_ELM_PREFIX_MIN_LEN + PREFIX_SIZE(map.prefixlen)
      [] map.type = MAP_TYPE_PWID ->
            FEC_PWID_ELM_MIN_LEN
            + (IF "F_MAP_PW_ID" \in map.flags THEN PW_STATUS_TLV_LEN ELSE 0)
            + (IF "F_MAP_PW_IFMTU" \in map.flags
               THEN FEC_SUBTLV_IFMTU_SIZE ELSE 0)
            + (IF "F_MAP_PW_STATUS" \in map.flags
               THEN PW_STATUS_TLV_SIZE ELSE 0)
      [] map.type = MAP_TYPE_TYPED_WCARD -> FEC_ELM_TWCARD_MIN_LEN + 2

Family(af) == IF af = AF_INET THEN AF_IPV4 ELSE AF_IPV6

gen_fec_tlv(map) ==
    LET ft(len) == htons(TLV_TYPE_FEC) \o htons(len)
    IN
    CASE map.type = MAP_TYPE_WILDCARD ->
            << ft(1), <<map.type>> >>
      [] map.type = MAP_TYPE_PREFIX ->
            LET len == PREFIX_SIZE(map.prefixlen)
            IN  << ft(1 + 2 + 1 + len), <<map.type>>,
                   htons(Family(map.af)), <<map.prefixlen>> >>
                \o (IF len # 0 THEN << SubSeq(map.prefix, 1, len) >>
                    ELSE << >>)
      [] map.type = MAP_TYPE_PWID ->
            LET pw_len ==
                    (IF "F_MAP_PW_ID" \in map.flags THEN FEC_PWID_SIZE ELSE 0)
                    + (IF "F_MAP_PW_IFMTU" \in map.flags
                       THEN FEC_SUBTLV_IFMTU_SIZE ELSE 0)
                len == FEC_PWID_ELM_MIN_LEN + pw_len
                pw_type == IF "F_MAP_PW_CWORD" \in map.flags
                           THEN map.pw_type + CONTROL_WORD_FLAG
                           ELSE map.pw_type
            IN  << ft(len), <<map.type>>, htons(pw_type), <<pw_len>>,
                   htonl(map.group_id) >>
                \o (IF "F_MAP_PW_ID" \in map.flags
                    THEN << htonl(map.pwid) >> ELSE << >>)
                \o (IF "F_MAP_PW_IFMTU" \in map.flags
                    THEN << <<SUBTLV_IFMTU, FEC_SUBTLV_IFMTU_SIZE>>,
                            htons(map.ifmtu) >>
                    ELSE << >>)
      [] map.type = MAP_TYPE_TYPED_WCARD ->
            LET len == FEC_ELM_TWCARD_MIN_LEN + 2
            IN  << ft(len), <<map.type>>, <<map.tw_type>>, <<2>> >>
                \o (IF map.tw_type = MAP_TYPE_PREFIX
                    THEN << htons(Family(map.tw_af)) >>
                    ELSE << htons(map.tw_pw_type) >>)

(***************************************************************************)
(* State.                                                                  *)
(*   pc        position of the running call                                *)
(*   type      message type argument of the call                           *)
(*   nbr       neighbor: max_pdu_len, stats (sent counters), v4/v6_enabled *)
(* send_labelmessage:                                                      *)
(*   mh        the mapping queue (struct mapping_head)                     *)
(*   buf, size, first, err   the locals of send_labelmessage               *)
(*   wbuf      nbr->tcp->wbuf: the PDUs handed to evbuf_enqueue            *)
(*   wbuf_lost a PDU was handed over after wbuf reached WbufCap            *)
(*   freed     number of PDU buffers released with ibuf_free               *)
(*   evts      events raised with nbr_fsm                                  *)
(*   mh0       the queue at the call; removed: the records taken off the   *)
(*             queue by TAILQ_REMOVE after being encoded                   *)
(* recv_labelmessage:                                                      *)
(*   rbuf      the received message (message header, FEC TLV, optional     *)
(*             TLVs); rpos: how far the buf pointer has advanced in it     *)
(*   rlen      the len argument, a uint16_t; feclen, label, reqid,         *)
(*             pw_status, flags, current_tlv: the locals of that name      *)
(*   cur       tlv_decode_fec_elm inside its sub-TLV loop: map, off,       *)
(*             pw_len; odd tells whether the loop has made an odd number   *)
(*             of iterations                                               *)
(*   rmh       the local queue mh of decoded records                       *)
(*   delivered the records given to ldpe_imsg_compose_lde, in order        *)
(*   notifs    the notifications sent (send_notification[_rtlvs])          *)
(*   shutdowns the status codes given to session_shutdown                  *)
(*   ret       the return value, once pc = "recv_done"                     *)
(***************************************************************************)
VARIABLES pc, type, nbr, mh, buf, size, first, err, wbuf, wbuf_lost, freed,
          evts, mh0, removed,
          rbuf, rpos, rlen, feclen, cur, label, reqid, pw_status, flags,
          current_tlv, rmh, delivered, notifs, shutdowns, ret

recvVars == << rbuf, rpos, rlen, feclen, cur, label, reqid, pw_status, flags,
               current_tlv, rmh, delivered, notifs, shutdowns, ret >>

sendVars == << mh, buf, size, first, err, wbuf, wbuf_lost, freed, evts, mh0,
               removed >>

\* PDUs the model keeps in wbuf; a call that returns never needs more than
\* one PDU per record
WbufCap == MaxQueue + 2

(***************************************************************************)
(* Inputs of send_labelmessage.                                            *)
(***************************************************************************)
PrefixMap(af, plen, addr, lbl, fl) ==
    [ZeroMap EXCEPT !.type = MAP_TYPE_PREFIX, !.af = af, !.prefixlen = plen,
                    !.prefix = addr, !.label = lbl, !.flags = fl,
                    !.requestid = 7, !.pw_status = 0]

PwidMap(lbl, fl) ==
    [ZeroMap EXCEPT !.type = MAP_TYPE_PWID, !.pw_type = 5, !.group_id = 1,
                    !.pwid = 9, !.ifmtu = 1500, !.label = lbl,
                    !.flags = fl, !.pw_status = 1]

SendMaps ==
    { PrefixMap(AF_INET, 24, <<10, 0, 0, 0>>, 100, {}),
      PrefixMap(AF_INET6, 0, <<0, 0, 0, 0>>, NO_LABEL, {"F_MAP_REQ_ID"}),
      PrefixMap(AF_INET, 8, <<10, 0, 0, 0>>, 100, {"F_MAP_PW_STATUS"}),
      [ZeroMap EXCEPT !.type = MAP_TYPE_WILDCARD, !.label = NO_LABEL],
      [ZeroMap EXCEPT !.type = MAP_TYPE_TYPED_WCARD,
                      !.tw_type = MAP_TYPE_PREFIX, !.tw_af = AF_INET,
                      !.label = NO_LABEL, !.flags = {"F_MAP_STATUS"}],
      PwidMap(200, {"F_MAP_PW_ID", "F_MAP_PW_IFMTU", "F_MAP_PW_STATUS",
                    "F_MAP_PW_CWORD"}),
      PwidMap(300, {"F_MAP_PW_ID"}) }

PduLens == {4, 8, 12, 35, 40, 64, 4096}

Queues == UNION { [1..n -> SendMaps] : n \in 0..MaxQueue }

ZeroStats == [t \in MsgTypes |-> 0]

\* the locals and outputs of recv_labelmessage before a call
RecvIdle ==
    /\ rbuf = << >>
    /\ rpos = 0
    /\ rlen = 0
    /\ feclen = 0
    /\ cur = NoCur
    /\ label = NO_LABEL
    /\ reqid = 0
    /\ pw_status = 0
    /\ flags = {}
    /\ current_tlv = 1
    /\ rmh = << >>
    /\ delivered = << >>
    /\ notifs = << >>
    /\ shutdowns = << >>
    /\ ret = 0

\* the locals and outputs of send_labelmessage before a call
SendIdle ==
    /\ mh = << >>
    /\ mh0 = << >>
    /\ buf = NoBuf
    /\ size = 0
    /\ first = TRUE
    /\ err = FALSE
    /\ wbuf = << >>
    /\ wbuf_lost = FALSE
    /\ freed = 0
    /\ evts = << >>
    /\ removed = << >>

\* the generators send_labelmessage calls for a record; Oom names the one
\* that fails for want of memory ("none": no such failure)
Oom == {"none", "msg_hdr", "fec", "label", "reqid", "pw_status", "status"}

InitSend ==
    /\ pc = "send"
    /\ type \in MsgTypes
    /\ \E l \in PduLens :
          nbr = [max_pdu_len |-> l, stats |-> ZeroStats,
                 v4_enabled |-> TRUE, v6_enabled |-> TRUE]
    /\ mh \in Queues
    /\ mh0 = mh
    /\ buf = NoBuf
    /\ size = 0
    /\ first = TRUE
    /\ err = FALSE
    /\ wbuf = << >>
    /\ wbuf_lost = FALSE
    /\ freed = 0
    /\ evts = << >>
    /\ removed = << >>
    /\ RecvIdle

(***************************************************************************)
(* send_labelmessage                                                       *)
(***************************************************************************)
\* lines 61-69: the size of the message of one record, a uint16_t
MsgSize(map) ==
    ( LDP_MSG_SIZE + len_fec_tlv(map)
      + (IF map.label # NO_LABEL THEN LABEL_TLV_SIZE ELSE 0)
      + (IF "F_MAP_REQ_ID" \in map.flags THEN REQID_TLV_SIZE ELSE 0)
      + (IF "F_MAP_STATUS" \in map.flags THEN STATUS_SIZE ELSE 0) ) % U16

\* lines 80-91: append message and tlvs to b; err |= every generator
AppendMsg(b, t, map, msg_size, oom) ==
    LET a1 == Gen([buf |-> b, err |-> FALSE], gen_msg_hdr(t, msg_size),
                  oom = "msg_hdr")
        a2 == Gen(a1, gen_fec_tlv(map), oom = "fec")
        a3 == IF map.label # NO_LABEL
              THEN Gen(a2, gen_label_tlv(map.label), oom = "label")
              ELSE a2
        a4 == IF "F_MAP_REQ_ID" \in map.flags
              THEN Gen(a3, gen_reqid_tlv(map.requestid), oom = "reqid")
              ELSE a3
        a5 == IF "F_MAP_PW_STATUS" \in map.flags
              THEN Gen(a4, gen_pw_status_tlv(map.pw_status),
                       oom = "pw_status")
              ELSE a4
        a6 == IF "F_MAP_STATUS" \in map.flags
              THEN Gen(a5, gen_status_tlv(0, 0, 0), oom = "status")
              ELSE a5
        m(r) == [map |-> map, msg_size |-> msg_size, start |-> b.wpos,
                 end |-> r.buf.wpos, whole |-> ~r.err]
    IN  CHOOSE res \in
            { [buf |-> [r.buf EXCEPT !.msgs = Append(@, m(r))],
               err |-> r.err] : r \in {a6} } : TRUE

\* a slip in the switch: Label Request counted as Label Mapping
StatsIncSlip(stats, t) ==
    IF t = MSG_TYPE_LABELREQUEST
    THEN [stats EXCEPT ![MSG_TYPE_LABELMAPPING] = @ + 1]
    ELSE IF t \in MsgTypes THEN [stats EXCEPT ![t] = @ + 1] ELSE stats

\* lines 101-119: update per neighbor message counters
StatsInc(stats, t) ==
    IF t \in MsgTypes THEN [stats EXCEPT ![t] = @ + 1] ELSE stats

\* lines 23-31: what enqueue_pdu hands to evbuf_enqueue
Pdu(b, sz) ==
    [length |-> (sz - LDP_HDR_DEAD_LEN) % U16, wpos |-> b.wpos,
     hdr |-> b.hdr, msgs |-> b.msgs]

evbuf_enqueue(q, pdu) == IF Len(q) < WbufCap THEN Append(q, pdu) ELSE q

\* the empty-queue test left out
send_entry_nocheck ==
    /\ pc = "send"
    /\ pc' = "send_loop"
    /\ UNCHANGED recvVars
    /\ UNCHANGED << type, nbr, sendVars >>

\* lines 43-45
send_entry ==
    /\ pc = "send"
    /\ pc' = IF mh = << >> THEN "send_done" ELSE "send_loop"
    /\ UNCHANGED recvVars
    /\ UNCHANGED << type, nbr, sendVars >>

\* lines 49-59: generate pdu
send_open ==
    /\ pc = "send_loop"
    /\ mh # << >>
    /\ first
    /\ \E r \in {Gen([buf |-> ibuf_open(nbr.max_pdu_len + LDP_HDR_DEAD_LEN),
                       err |-> err], gen_ldp_hdr(0), FALSE)} :
          /\ buf' = [r.buf EXCEPT !.hdr = (r.buf.wpos = LDP_HDR_SIZE)]
          /\ err' = r.err
    /\ size' = LDP_HDR_SIZE
    /\ first' = FALSE
    /\ UNCHANGED recvVars
    /\ UNCHANGED << pc, type, nbr, mh, wbuf, wbuf_lost, freed, evts, mh0,
                    removed >>

\* the flush also takes the record that did not fit off the queue
send_flush_skip ==
    /\ pc = "send_loop"
    /\ mh # << >>
    /\ ~first
    /\ size + MsgSize(Head(mh)) > nbr.max_pdu_len
    /\ wbuf' = evbuf_enqueue(wbuf, Pdu(buf, size))
    /\ wbuf_lost' = (wbuf_lost \/ Len(wbuf) >= WbufCap)
    /\ first' = TRUE
    /\ mh' = Tail(mh)
    /\ UNCHANGED recvVars
    /\ UNCHANGED << pc, type, nbr, buf, size, err, freed, evts, mh0, removed >>

\* lines 71-76: maximum pdu length exceeded, we need a new ldp pdu.
\* enqueue_pdu writes through ibuf_seek(buf, 0, sizeof(struct ldp_hdr)),
\* which is NULL when the header was never written: the write is undefined,
\* the process dies or goes on.
send_flush ==
    /\ pc = "send_loop"
    /\ mh # << >>
    /\ ~first
    /\ size + MsgSize(Head(mh)) > nbr.max_pdu_len
    /\ \/ /\ buf.hdr
          /\ wbuf' = evbuf_enqueue(wbuf, Pdu(buf, size))
          /\ wbuf_lost' = (wbuf_lost \/ Len(wbuf) >= WbufCap)
          /\ first' = TRUE
          /\ pc' = pc
       \/ /\ ~buf.hdr
          /\ wbuf' = evbuf_enqueue(wbuf, [Pdu(buf, size) EXCEPT !.length = -1])
          /\ wbuf_lost' = (wbuf_lost \/ Len(wbuf) >= WbufCap)
          /\ first' = TRUE
          /\ pc' = pc
       \/ /\ ~buf.hdr
          /\ pc' = "send_crash"
          /\ UNCHANGED << wbuf, wbuf_lost, first >>
    /\ UNCHANGED recvVars
    /\ UNCHANGED << type, nbr, mh, buf, size, err, freed, evts, mh0, removed >>

\* the error path returns without mapping_list_clr
send_encode_err_noclr ==
    /\ pc = "send_loop"
    /\ mh # << >>
    /\ ~first
    /\ size + MsgSize(Head(mh)) <= nbr.max_pdu_len
    /\ \E oom \in Oom :
          \E r \in {AppendMsg(buf, type, Head(mh), MsgSize(Head(mh)), oom)} :
             err \/ r.err
    /\ size' = (size + MsgSize(Head(mh))) % U16
    /\ err' = TRUE
    /\ buf' = NoBuf
    /\ freed' = freed + 1
    /\ pc' = "send_done"
    /\ UNCHANGED recvVars
    /\ UNCHANGED << type, nbr, mh, first, wbuf, wbuf_lost, evts, mh0,
                    removed >>

\* lines 78-96: the record fits, an append failed
send_encode_err ==
    /\ pc = "send_loop"
    /\ mh # << >>
    /\ ~first
    /\ size + MsgSize(Head(mh)) <= nbr.max_pdu_len
    /\ \E oom \in Oom :
          \E r \in {AppendMsg(buf, type, Head(mh), MsgSize(Head(mh)), oom)} :
             err \/ r.err
    /\ size' = (size + MsgSize(Head(mh))) % U16
    /\ err' = TRUE
    /\ buf' = NoBuf
    /\ freed' = freed + 1
    /\ mh' = << >>
    /\ pc' = "send_done"
    /\ UNCHANGED recvVars
    /\ UNCHANGED << type, nbr, first, wbuf, wbuf_lost, evts, mh0, removed >>

\* lines 78-123: the record fits and is encoded, counted and removed
send_encode_ok ==
    /\ pc = "send_loop"
    /\ mh # << >>
    /\ ~first
    /\ size + MsgSize(Head(mh)) <= nbr.max_pdu_len
    /\ \E r \in {AppendMsg(buf, type, Head(mh), MsgSize(Head(mh)), "none")} :
          /\ ~(err \/ r.err)
          /\ buf' = r.buf
    /\ size' = (size + MsgSize(Head(mh))) % U16
    /\ nbr' = [nbr EXCEPT !.stats = StatsInc(@, type)]
    /\ removed' = Append(removed, Head(mh))
    /\ mh' = Tail(mh)
    /\ UNCHANGED recvVars
    /\ UNCHANGED << pc, type, first, err, wbuf, wbuf_lost, freed, evts, mh0 >>

\* lines 126-128: the queue is exhausted
send_finish ==
    /\ pc = "send_loop"
    /\ mh = << >>
    /\ wbuf' = evbuf_enqueue(wbuf, Pdu(buf, size))
    /\ wbuf_lost' = (wbuf_lost \/ Len(wbuf) >= WbufCap)
    /\ evts' = Append(evts, "NBR_EVT_PDU_SENT")
    /\ pc' = "send_done"
    /\ UNCHANGED recvVars
    /\ UNCHANGED << type, nbr, mh, buf, size, first, err, freed, mh0,
                    removed >>

vars == << pc, type, nbr, sendVars, recvVars >>

NextSend ==
    \/ send_entry
    \/ send_open
    \/ send_flush
    \/ send_encode_err
    \/ send_encode_ok
    \/ send_finish

SpecSend == InitSend /\ [][NextSend]_vars

\* One Label Mapping call over a queue of at most two records.  The loop of
\* send_labelmessage runs on (no step of it waits for anything), hence the
\* weak fairness of its steps.
InitSendOne ==
    /\ InitSend
    /\ type = MSG_TYPE_LABELMAPPING
    /\ Len(mh) <= 2
    /\ \A i \in 1..Len(mh) : mh[i].type = MAP_TYPE_PREFIX

FairSpecSend == InitSendOne /\ [][NextSend]_vars /\ WF_vars(NextSend)

(***************************************************************************)
(* Properties of send_labelmessage.                                        *)
(***************************************************************************)
RECURSIVE PduMaps(_)
PduMaps(q) ==
    IF q = << >> THEN << >>
    ELSE [i \in 1..Len(Head(q).msgs) |-> Head(q).msgs[i].map]
         \o PduMaps(Tail(q))

SentPdus == {wbuf[i] : i \in 1..Len(wbuf)}

PduMsgs(pdu) == {pdu.msgs[i] : i \in 1..Len(pdu.msgs)}

\* C1: every PDU handed to the transport has an encoded size (LDP header
\* plus the messages appended to it) of at most max_pdu_len.
C1_PduWithinMax ==
    \A pdu \in SentPdus : pdu.wpos <= nbr.max_pdu_len

\* C2: when send_labelmessage returns without an encode failure, the
\* records in the emitted PDUs, read PDU by PDU in emission order, are the
\* input queue in its order, each encoded once, and each message lies
\* wholly inside one PDU (after the LDP header, back to back, within the
\* bytes of that PDU).
C2_RecordsInOrder ==
    (pc = "send_done" /\ ~err) =>
        /\ ~wbuf_lost
        /\ PduMaps(wbuf) = mh0
        /\ \A pdu \in SentPdus :
              /\ pdu.hdr
              /\ \A i \in 1..Len(pdu.msgs) :
                    /\ pdu.msgs[i].whole
                    /\ pdu.msgs[i].start =
                          (IF i = 1 THEN LDP_HDR_SIZE
                           ELSE pdu.msgs[i - 1].end)
                    /\ pdu.msgs[i].start < pdu.msgs[i].end
                    /\ pdu.msgs[i].end <= pdu.wpos

C2_Witness ==
    /\ pc = "send_done"
    /\ ~err
    /\ Len(mh0) = 3
    /\ Len(wbuf) = 2
    /\ mh0[1] # mh0[2]
    /\ mh0[2] # mh0[3]

\* C3: for any non-empty queue and any max_pdu_len the call comes to an
\* end: the queue is exhausted and send_labelmessage returns.  Stated for
\* the values of max_pdu_len that hold at least the LDP header, where the
\* header is always written and enqueue_pdu is defined.
C3_Terminates == (nbr.max_pdu_len >= LDP_HDR_SIZE) => <>(pc = "send_done")

\* C4: the length written into the LDP header of every emitted PDU equals
\* the number of bytes appended after that field, and the msg_size computed
\* for every record equals the number of bytes the generators appended for
\* it.
C4_SizesExact ==
    \A pdu \in SentPdus :
        pdu.hdr =>
            /\ pdu.length = pdu.wpos - LDP_HDR_DEAD_LEN
            /\ \A m \in PduMsgs(pdu) : m.whole => m.msg_size = m.end - m.start

\* C5: at every point of the call for message type T the sent counter of T
\* has grown by the number of records removed from the queue as encoded,
\* the counters of the other types are unchanged, and a call over N
\* records without encode failure counts exactly N.
C5_CounterMatchesRemoved ==
    /\ nbr.stats[type] = Len(removed)
    /\ \A t \in MsgTypes \ {type} : nbr.stats[t] = 0
    /\ ~err => Len(removed) = Len(mh0) - Len(mh)
    /\ (pc = "send_done" /\ ~err) => nbr.stats[type] = Len(mh0)

C5_Witness ==
    /\ pc = "send_done"
    /\ ~err
    /\ Len(mh0) = 3
    /\ Len(wbuf) = 2
    /\ nbr.stats[type] = 3
    /\ type = MSG_TYPE_LABELREQUEST

\* C6: NBR_EVT_PDU_SENT is raised exactly once by a call that returns iff
\* the queue was not empty and no encode failure occurred, and only after
\* the final PDU was handed to the transport; for an empty queue no buffer
\* is opened, nothing is handed over and no event is raised.
C6_PduSentEvent ==
    /\ Len(evts) <= 1
    /\ pc # "send_done" => evts = << >>
    /\ pc = "send_done" => (Len(evts) = 1 <=> (mh0 # << >> /\ ~err))
    /\ evts # << >> =>
          /\ mh = << >>
          /\ wbuf # << >>
          /\ wbuf[Len(wbuf)] = Pdu(buf, size)
          /\ PduMaps(wbuf) = mh0
    /\ mh0 = << >> =>
          /\ buf = NoBuf
          /\ wbuf = << >>
          /\ evts = << >>
          /\ freed = 0

C6_Witness ==
    /\ pc = "send_done"
    /\ evts = << "NBR_EVT_PDU_SENT" >>
    /\ Len(wbuf) = 2
    /\ wbuf[2].msgs # << >>

\* C7: when an append fails while a record is encoded, the PDU in progress
\* is freed and never handed to the transport, the whole remaining queue
\* with the failing record is emptied, the failing record is not counted,
\* the call returns, and no PDU with a partly encoded message reaches the
\* transport.
C7_Returned ==
    (pc = "send_done" /\ err) =>
        /\ mh = << >>
        /\ buf = NoBuf
        /\ freed = 1
        /\ evts = << >>
        /\ Len(removed) < Len(mh0)
        /\ nbr.stats[type] = Len(removed)

C7_NoPartial == \A pdu \in SentPdus : \A m \in PduMsgs(pdu) : m.whole

C7_Step ==
    (pc = "send_loop" /\ pc' = "send_done" /\ err') =>
        /\ wbuf' = wbuf
        /\ freed' = freed + 1
        /\ nbr' = nbr
        /\ removed' = removed

C7_EncodeFailure == [](C7_Returned /\ C7_NoPartial) /\ [][C7_Step]_vars

C7_Witness ==
    /\ pc = "send_done"
    /\ err
    /\ Len(wbuf) >= 1
    /\ Len(removed) >= 2
    /\ Len(mh0) = 3


(***************************************************************************)
(* tlv_decode_fec_elm.  mem is the memory at the message, p the offset of  *)
(* buf in it and n the len argument.  The result tells what the call       *)
(* returned (ret), the record it filled in, and the session_shutdown       *)
(* (shut) or send_notification (notif) it made; loop says the call stands  *)
(* at the head of its sub-TLV loop with off and pw_len.                    *)
(***************************************************************************)
DecFail(map, shut, notif) ==
    [ret |-> -1, loop |-> FALSE, map |-> map, off |-> 0, pw_len |-> 0,
     shut |-> shut, notif |-> notif]

\* a return that leaves the type byte out of the count
DecOkShort(map, off) ==
    [ret |-> off - 1, loop |-> FALSE, map |-> map, off |-> off - 1,
     pw_len |-> 0, shut |-> "", notif |-> ""]

DecOk(map, off) ==
    [ret |-> off, loop |-> FALSE, map |-> map, off |-> off, pw_len |-> 0,
     shut |-> "", notif |-> ""]

DecLoop(map, off, pw_len) ==
    [ret |-> 0, loop |-> TRUE, map |-> map, off |-> off, pw_len |-> pw_len,
     shut |-> "", notif |-> ""]

\* union ldpd_addr: 16 bytes
AddrSize == 16

\* memset of the prefix to 0, then memcpy of the first Len(bytes) bytes
Pad(bytes) == [i \in 1..AddrSize |-> IF i <= Len(bytes) THEN bytes[i] ELSE 0]

\* ldp_applymask: the bits past prefixlen are cleared, in the 4 bytes of an
\* IPv4 address or the 16 of an IPv6 one
ldp_applymask(af, addr, plen) ==
    [i \in 1..Len(addr) |->
        IF af = AF_INET /\ i > 4 THEN addr[i]
        ELSE IF 8 * i <= plen THEN addr[i]
        ELSE IF 8 * (i - 1) >= plen THEN 0
        ELSE addr[i] - (addr[i] % (2 ^ (8 * i - plen)))]

\* lines 687-739
DecodePrefix(mem, p, n, map) ==
    IF n < FEC_ELM_PREFIX_MIN_LEN THEN DecFail(map, "S_BAD_TLV_LEN", "")
    ELSE
    LET wire_af == ntohs(<< mem[p + 2], mem[p + 3] >>)
        af == IF wire_af = AF_IPV4 THEN AF_INET ELSE AF_INET6
        plen == mem[p + 4]
        off == 4
    IN  IF wire_af \notin {AF_IPV4, AF_IPV6}
        THEN DecFail([map EXCEPT !.af = wire_af], "", "S_UNSUP_ADDR")
        ELSE IF \/ (af = AF_IPV4 /\ plen > IPV4_MAX_BITLEN)
                \/ (af = AF_IPV6 /\ plen > IPV6_MAX_BITLEN)
        THEN DecFail([map EXCEPT !.af = af, !.prefixlen = plen],
                     "S_BAD_TLV_VAL", "")
        ELSE IF n < off + PREFIX_SIZE(plen)
        THEN DecFail([map EXCEPT !.af = af, !.prefixlen = plen],
                     "S_BAD_TLV_LEN", "")
        ELSE DecOk([map EXCEPT
                      !.af = af, !.prefixlen = plen,
                      !.prefix = ldp_applymask(af,
                          Pad(SubSeq(mem, p + off + 1,
                                     p + off + PREFIX_SIZE(plen))), plen)],
                   off + PREFIX_SIZE(plen))

\* lines 740-786: up to the sub-TLV loop
DecodePwid(mem, p, n, map) ==
    IF n < FEC_PWID_ELM_MIN_LEN THEN DecFail(map, "S_BAD_TLV_LEN", "")
    ELSE
    LET wire_type == ntohs(<< mem[p + 2], mem[p + 3] >>)
        cword == BitSet(wire_type, CONTROL_WORD_FLAG)
        map1 == [map EXCEPT
                   !.pw_type = IF cword THEN wire_type - CONTROL_WORD_FLAG
                               ELSE wire_type,
                   !.flags = IF cword THEN @ \cup {"F_MAP_PW_CWORD"} ELSE @]
        pw_len == mem[p + 4]
        map2 == [map1 EXCEPT !.group_id = ntohl(SubSeq(mem, p + 5, p + 8))]
        map3 == [map2 EXCEPT !.pwid = ntohl(SubSeq(mem, p + 9, p + 12)),
                             !.flags = @ \cup {"F_MAP_PW_ID"}]
    IN  IF n # FEC_PWID_ELM_MIN_LEN + pw_len
        THEN DecFail(map1, "S_BAD_TLV_LEN", "")
        ELSE IF pw_len = 0 THEN DecOk(map2, 8)
        ELSE IF pw_len < 4 THEN DecFail(map2, "S_BAD_TLV_LEN", "")
        ELSE IF pw_len - 4 > 0 THEN DecLoop(map3, 12, pw_len - 4)
        ELSE DecOk(map3, 12)

\* lines 825-890
DecodeTwcard(mem, p, n, map) ==
    IF n < FEC_ELM_TWCARD_MIN_LEN THEN DecFail(map, "S_BAD_TLV_LEN", "")
    ELSE
    LET tw_type == mem[p + 2]
        twcard_len == mem[p + 3]
        map1 == [map EXCEPT !.tw_type = tw_type]
        u == ntohs(<< mem[p + 4], mem[p + 5] >>)
    IN  IF n # FEC_ELM_TWCARD_MIN_LEN + twcard_len
        THEN DecFail(map1, "S_BAD_TLV_LEN", "")
        ELSE IF tw_type = MAP_TYPE_PREFIX
        THEN IF twcard_len # 2 THEN DecFail(map1, "S_BAD_TLV_LEN", "")
             ELSE IF u = AF_IPV4
             THEN DecOk([map1 EXCEPT !.tw_af = AF_INET], 5)
             ELSE IF u = AF_IPV6
             THEN DecOk([map1 EXCEPT !.tw_af = AF_INET6], 5)
             ELSE DecFail([map1 EXCEPT !.tw_af = u], "S_BAD_TLV_VAL", "")
        ELSE IF tw_type = MAP_TYPE_PWID
        THEN IF twcard_len # 2 THEN DecFail(map1, "S_BAD_TLV_LEN", "")
             ELSE DecOk([map1 EXCEPT
                           !.tw_pw_type =
                               IF BitSet(u, PW_TWCARD_RESERVED_BIT)
                               THEN u - PW_TWCARD_RESERVED_BIT ELSE u], 5)
        ELSE DecFail(map1, "", "S_UNKNOWN_FEC")

\* lines 667-897 but for the iterations of the sub-TLV loop
tlv_decode_fec_elm(mem, p, n, map0) ==
    LET map == [map0 EXCEPT !.type = mem[p + 1]]
    IN  IF map.type = MAP_TYPE_WILDCARD
        THEN IF n = FEC_ELM_WCARD_LEN THEN DecOk(map, 1)
             ELSE DecFail(map, "S_BAD_TLV_VAL", "")
        ELSE IF map.type = MAP_TYPE_PREFIX THEN DecodePrefix(mem, p, n, map)
        ELSE IF map.type = MAP_TYPE_PWID THEN DecodePwid(mem, p, n, map)
        ELSE IF map.type = MAP_TYPE_TYPED_WCARD
        THEN DecodeTwcard(mem, p, n, map)
        ELSE DecFail(map, "", "S_UNKNOWN_FEC")


(***************************************************************************)
(* recv_labelmessage                                                       *)
(***************************************************************************)
Notif(status, tlv_type, tlv_len, data) ==
    [status |-> status, tlv_type |-> tlv_type, tlv_len |-> tlv_len,
     data |-> data]

\* lines 427-445
ImsgType(t) ==
    CASE t = MSG_TYPE_LABELMAPPING -> "IMSG_LABEL_MAPPING"
      [] t = MSG_TYPE_LABELREQUEST -> "IMSG_LABEL_REQUEST"
      [] t = MSG_TYPE_LABELWITHDRAW -> "IMSG_LABEL_WITHDRAW"
      [] t = MSG_TYPE_LABELRELEASE -> "IMSG_LABEL_RELEASE"
      [] t = MSG_TYPE_LABELABORTREQ -> "IMSG_LABEL_ABORT"
      [] OTHER -> "IMSG_NONE"

\* msg.id of the message header
MsgId == ntohl(SubSeq(rbuf, 5, 8))

\* a byte past the end of the message is whatever the receive buffer holds
Junk == {MAP_TYPE_WILDCARD, MAP_TYPE_PREFIX, 0}

\* every fault shuts the session down, those that send a notification too
RecvErrShut(shut, notif) ==
    /\ shutdowns' = Append(shutdowns, IF shut = "" THEN notif ELSE shut)
    /\ notifs' = IF notif = "" THEN notifs
                 ELSE Append(notifs, Notif(notif, 0, 0, << >>))
    /\ rmh' = << >>
    /\ cur' = NoCur
    /\ ret' = -1
    /\ pc' = "recv_done"
    /\ UNCHANGED << rbuf, rpos, rlen, feclen, label, reqid, pw_status, flags,
                    current_tlv, delivered >>

\* a return of -1: the call made in shut or notif, then lines 458-461
RecvErr(shut, notif) ==
    /\ shutdowns' = IF shut = "" THEN shutdowns ELSE Append(shutdowns, shut)
    /\ notifs' = IF notif = "" THEN notifs
                 ELSE Append(notifs, Notif(notif, 0, 0, << >>))
    /\ rmh' = << >>
    /\ cur' = NoCur
    /\ ret' = -1
    /\ pc' = "recv_done"
    /\ UNCHANGED << rbuf, rpos, rlen, feclen, label, reqid, pw_status, flags,
                    current_tlv, delivered >>

\* where the code goes on when the FEC elements, or an optional TLV, are done
AfterTlv(n) == IF n > 0 THEN "recv_opt" ELSE "recv_dispatch"

\* lines 146-168
recv_entry ==
    /\ pc = "recv"
    /\ LET n == (rlen - LDP_MSG_SIZE) % U16
       IN  IF n < TLV_HDR_SIZE THEN RecvErr("S_BAD_TLV_LEN", "")
           ELSE IF ntohs(SubSeq(rbuf, 9, 10)) # TLV_TYPE_FEC
           THEN RecvErr("", "S_MISS_MSG")
           ELSE IF ntohs(SubSeq(rbuf, 11, 12)) > n - TLV_HDR_SIZE
           THEN RecvErr("S_BAD_TLV_LEN", "")
           ELSE /\ feclen' = ntohs(SubSeq(rbuf, 11, 12))
                /\ rpos' = LDP_MSG_SIZE + TLV_HDR_SIZE
                /\ rlen' = n - TLV_HDR_SIZE
                /\ pc' = "recv_fec"
                /\ UNCHANGED << rbuf, cur, label, reqid, pw_status, flags,
                                current_tlv, rmh, delivered, notifs,
                                shutdowns, ret >>
    /\ UNCHANGED << type, nbr, sendVars >>

\* the test of lines 226-230 left out: any message may hold several elements
RecvAfterElmMany(map, tlen) ==
    IF /\ map.type = MAP_TYPE_PWID
       /\ "F_MAP_PW_ID" \notin map.flags
       /\ type # MSG_TYPE_LABELWITHDRAW
       /\ type # MSG_TYPE_LABELRELEASE
    THEN RecvErr("", "S_MISS_MSG")
    ELSE IF /\ map.type = MAP_TYPE_WILDCARD
            /\ type \in {MSG_TYPE_LABELMAPPING, MSG_TYPE_LABELREQUEST,
                         MSG_TYPE_LABELABORTREQ}
    THEN RecvErr("S_UNKNOWN_FEC", "")
    ELSE IF /\ map.type = MAP_TYPE_TYPED_WCARD
            /\ type \in {MSG_TYPE_LABELMAPPING, MSG_TYPE_LABELABORTREQ}
    THEN RecvErr("S_UNKNOWN_FEC", "")
    ELSE /\ rmh' = Append(rmh, map)
         /\ rpos' = rpos + tlen
         /\ rlen' = (rlen - tlen) % U16
         /\ feclen' = feclen - tlen
         /\ pc' = IF feclen - tlen > 0 THEN "recv_fec"
                  ELSE AfterTlv((rlen - tlen) % U16)
         /\ cur' = NoCur
         /\ UNCHANGED << rbuf, label, reqid, pw_status, flags, current_tlv,
                         delivered, notifs, shutdowns, ret >>

\* mapping_list_add putting the record at the head of the queue
RecvAfterElmHead(map, tlen) ==
    IF /\ map.type = MAP_TYPE_PWID
       /\ "F_MAP_PW_ID" \notin map.flags
       /\ type # MSG_TYPE_LABELWITHDRAW
       /\ type # MSG_TYPE_LABELRELEASE
    THEN RecvErr("", "S_MISS_MSG")
    ELSE IF /\ map.type = MAP_TYPE_WILDCARD
            /\ type \in {MSG_TYPE_LABELMAPPING, MSG_TYPE_LABELREQUEST,
                         MSG_TYPE_LABELABORTREQ}
    THEN RecvErr("S_UNKNOWN_FEC", "")
    ELSE IF /\ map.type = MAP_TYPE_TYPED_WCARD
            /\ type \in {MSG_TYPE_LABELMAPPING, MSG_TYPE_LABELABORTREQ}
    THEN RecvErr("S_UNKNOWN_FEC", "")
    ELSE IF type # MSG_TYPE_LABELMAPPING /\ tlen # feclen
    THEN RecvErr("S_BAD_TLV_VAL", "")
    ELSE /\ rmh' = << map >> \o rmh
         /\ rpos' = rpos + tlen
         /\ rlen' = (rlen - tlen) % U16
         /\ feclen' = feclen - tlen
         /\ pc' = IF feclen - tlen > 0 THEN "recv_fec"
                  ELSE AfterTlv((rlen - tlen) % U16)
         /\ cur' = NoCur
         /\ UNCHANGED << rbuf, label, reqid, pw_status, flags, current_tlv,
                         delivered, notifs, shutdowns, ret >>

\* the tests of lines 191-220 left out: every message type takes every FEC
\* element type
RecvAfterElmAnyFec(map, tlen) ==
    IF /\ map.type = MAP_TYPE_PWID
       /\ "F_MAP_PW_ID" \notin map.flags
       /\ type # MSG_TYPE_LABELWITHDRAW
       /\ type # MSG_TYPE_LABELRELEASE
    THEN RecvErr("", "S_MISS_MSG")
    ELSE IF type # MSG_TYPE_LABELMAPPING /\ tlen # feclen
    THEN RecvErr("S_BAD_TLV_VAL", "")
    ELSE /\ rmh' = Append(rmh, map)
         /\ rpos' = rpos + tlen
         /\ rlen' = (rlen - tlen) % U16
         /\ feclen' = feclen - tlen
         /\ pc' = IF feclen - tlen > 0 THEN "recv_fec"
                  ELSE AfterTlv((rlen - tlen) % U16)
         /\ cur' = NoCur
         /\ UNCHANGED << rbuf, label, reqid, pw_status, flags, current_tlv,
                         delivered, notifs, shutdowns, ret >>

\* lines 178-237: tlv_decode_fec_elm returned tlen and the record map
RecvAfterElm(map, tlen) ==
    IF /\ map.type = MAP_TYPE_PWID
       /\ "F_MAP_PW_ID" \notin map.flags
       /\ type # MSG_TYPE_LABELWITHDRAW
       /\ type # MSG_TYPE_LABELRELEASE
    THEN RecvErr("", "S_MISS_MSG")
    ELSE IF /\ map.type = MAP_TYPE_WILDCARD
            /\ type \in {MSG_TYPE_LABELMAPPING, MSG_TYPE_LABELREQUEST,
                         MSG_TYPE_LABELABORTREQ}
    THEN RecvErr("S_UNKNOWN_FEC", "")
    ELSE IF /\ map.type = MAP_TYPE_TYPED_WCARD
            /\ type \in {MSG_TYPE_LABELMAPPING, MSG_TYPE_LABELABORTREQ}
    THEN RecvErr("S_UNKNOWN_FEC", "")
    ELSE IF type # MSG_TYPE_LABELMAPPING /\ tlen # feclen
    THEN RecvErr("S_BAD_TLV_VAL", "")
    ELSE /\ rmh' = Append(rmh, map)
         /\ rpos' = rpos + tlen
         /\ rlen' = (rlen - tlen) % U16
         /\ feclen' = feclen - tlen
         /\ pc' = IF feclen - tlen > 0 THEN "recv_fec"
                  ELSE AfterTlv((rlen - tlen) % U16)
         /\ cur' = NoCur
         /\ UNCHANGED << rbuf, label, reqid, pw_status, flags, current_tlv,
                         delivered, notifs, shutdowns, ret >>

\* lines 171-177 and the call of tlv_decode_fec_elm up to its return or to
\* its sub-TLV loop; then lines 178-237.  With feclen = 0 at the end of the
\* message the type byte is read past the message.
recv_fec ==
    /\ pc = "recv_fec"
    /\ \E j \in (IF rpos >= Len(rbuf) THEN Junk ELSE {0}) :
       \E r \in {tlv_decode_fec_elm(rbuf \o <<j>>, rpos, feclen % U16,
                                    [ZeroMap EXCEPT !.msg_id = MsgId])} :
          IF r.loop
          THEN /\ cur' = [map |-> r.map, off |-> r.off, pw_len |-> r.pw_len,
                          odd |-> FALSE]
               /\ pc' = "recv_subtlv"
               /\ UNCHANGED << rbuf, rpos, rlen, feclen, label, reqid,
                               pw_status, flags, current_tlv, rmh, delivered,
                               notifs, shutdowns, ret >>
          ELSE IF r.ret = -1 THEN RecvErr(r.shut, r.notif)
          ELSE RecvAfterElm(r.map, r.ret)
    /\ UNCHANGED << type, nbr, sendVars >>

\* lines 788-822: one iteration of the sub-TLV loop of tlv_decode_fec_elm;
\* when the loop ends, line 824 and lines 178-237
recv_subtlv ==
    /\ pc = "recv_subtlv"
    /\ IF cur.pw_len < SUBTLV_HDR_SIZE THEN RecvErr("S_BAD_TLV_LEN", "")
       ELSE
       LET stlv_type == rbuf[rpos + cur.off + 1]
           stlv_length == rbuf[rpos + cur.off + 2]
           map == IF stlv_type = SUBTLV_IFMTU
                  THEN [cur.map EXCEPT
                          !.ifmtu = ntohs(SubSeq(rbuf,
                              rpos + cur.off + SUBTLV_HDR_SIZE + 1,
                              rpos + cur.off + SUBTLV_HDR_SIZE + 2)),
                          !.flags = @ \cup {"F_MAP_PW_IFMTU"}]
                  ELSE cur.map
           off == (cur.off + stlv_length) % U16
           pw_len == (cur.pw_len - stlv_length) % U8
       IN  IF stlv_length > cur.pw_len THEN RecvErr("S_BAD_TLV_LEN", "")
           ELSE IF /\ stlv_type = SUBTLV_IFMTU
                   /\ stlv_length # FEC_SUBTLV_IFMTU_SIZE
           THEN RecvErr("S_BAD_TLV_LEN", "")
           ELSE IF pw_len > 0
           THEN /\ cur' = [map |-> map, off |-> off, pw_len |-> pw_len,
                           odd |-> ~cur.odd]
                /\ UNCHANGED << pc, rbuf, rpos, rlen, feclen, label, reqid,
                                pw_status, flags, current_tlv, rmh,
                                delivered, notifs, shutdowns, ret >>
           ELSE RecvAfterElm(map, off)
    /\ UNCHANGED << type, nbr, sendVars >>


\* only the upper bound of a label is tested
InvalidLabelNoReserved(l) == U32Gt(l, MPLS_LABEL_MAX)

\* lines 310-314: do not accept invalid labels
InvalidLabel(l) ==
    \/ U32Gt(l, MPLS_LABEL_MAX)
    \/ /\ U32Le(l, MPLS_LABEL_RESERVED_MAX)
       /\ l # MPLS_LABEL_IPV4_EXPLICIT_NULL
       /\ l # MPLS_LABEL_IPV6_EXPLICIT_NULL
       /\ l # MPLS_LABEL_IMPLICIT_NULL

\* lines 272-373: the session_shutdown the switch makes for a TLV of type
\* tlv_type and length tlv_len with the value val ("": none)
OptTlvShut(tlv_type, tlv_len, val) ==
    IF tlv_type = TLV_TYPE_LABELREQUEST
    THEN IF /\ type \in {MSG_TYPE_LABELMAPPING, MSG_TYPE_LABELREQUEST}
            /\ tlv_len # REQID_TLV_LEN
         THEN "S_BAD_TLV_LEN" ELSE ""
    ELSE IF tlv_type = TLV_TYPE_GENERICLABEL
    THEN IF type \in {MSG_TYPE_LABELMAPPING, MSG_TYPE_LABELWITHDRAW,
                      MSG_TYPE_LABELRELEASE}
         THEN IF tlv_len # LABEL_TLV_LEN THEN "S_BAD_TLV_LEN"
              ELSE IF InvalidLabel(ntohl(SubSeq(val, 1, 4)))
              THEN "S_BAD_TLV_VAL" ELSE ""
         ELSE ""
    ELSE IF tlv_type \in {TLV_TYPE_ATMLABEL, TLV_TYPE_FRLABEL}
    THEN IF type \in {MSG_TYPE_LABELMAPPING, MSG_TYPE_LABELWITHDRAW,
                      MSG_TYPE_LABELRELEASE}
         THEN "S_BAD_TLV_VAL" ELSE ""
    ELSE IF tlv_type = TLV_TYPE_STATUS
    THEN IF tlv_len # STATUS_TLV_LEN THEN "S_BAD_TLV_LEN" ELSE ""
    ELSE IF tlv_type = TLV_TYPE_PW_STATUS
    THEN IF type = MSG_TYPE_LABELMAPPING /\ tlv_len # PW_STATUS_TLV_LEN
         THEN "S_BAD_TLV_LEN" ELSE ""
    ELSE ""

\* the switch with one more case, which swallows the type 0x0d00
KnownTlvsWide ==
    {TLV_TYPE_LABELREQUEST, TLV_TYPE_HOPCOUNT, TLV_TYPE_PATHVECTOR,
     TLV_TYPE_GENERICLABEL, TLV_TYPE_ATMLABEL, TLV_TYPE_FRLABEL,
     TLV_TYPE_STATUS, TLV_TYPE_PW_STATUS, 3328}

KnownTlvs == {TLV_TYPE_LABELREQUEST, TLV_TYPE_HOPCOUNT, TLV_TYPE_PATHVECTOR,
              TLV_TYPE_GENERICLABEL, TLV_TYPE_ATMLABEL, TLV_TYPE_FRLABEL,
              TLV_TYPE_STATUS, TLV_TYPE_PW_STATUS}

\* line 266: tlv_type & TLV_TYPE_GENERICLABEL
FirstTlvTest(tlv_type) == BitSet(tlv_type, TLV_TYPE_GENERICLABEL)

\* lines 240-377: one iteration of the loop over the optional parameters
recv_opt ==
    /\ pc = "recv_opt"
    /\ IF rlen < TLV_HDR_SIZE THEN RecvErr("S_BAD_TLV_LEN", "")
       ELSE
       LET tlv_type == ntohs(SubSeq(rbuf, rpos + 1, rpos + 2))
           tlv_len == ntohs(SubSeq(rbuf, rpos + 3, rpos + 4))
           val == SubSeq(rbuf, rpos + TLV_HDR_SIZE + 1,
                         rpos + TLV_HDR_SIZE + tlv_len)
           n == (rlen - TLV_HDR_SIZE - tlv_len) % U16
       IN  IF tlv_len + TLV_HDR_SIZE > rlen THEN RecvErr("S_BAD_TLV_LEN", "")
           ELSE IF /\ current_tlv = 1
                   /\ type = MSG_TYPE_LABELMAPPING
                   /\ ~FirstTlvTest(tlv_type)
           THEN RecvErr("", "S_MISS_MSG")
           ELSE IF OptTlvShut(tlv_type, tlv_len, val) # ""
           THEN RecvErr(OptTlvShut(tlv_type, tlv_len, val), "")
           ELSE /\ reqid' =
                     IF /\ tlv_type = TLV_TYPE_LABELREQUEST
                        /\ type \in {MSG_TYPE_LABELMAPPING,
                                     MSG_TYPE_LABELREQUEST}
                     THEN ntohl(SubSeq(val, 1, 4)) ELSE reqid
                /\ label' =
                     IF /\ tlv_type = TLV_TYPE_GENERICLABEL
                        /\ type \in {MSG_TYPE_LABELMAPPING,
                                     MSG_TYPE_LABELWITHDRAW,
                                     MSG_TYPE_LABELRELEASE}
                     THEN ntohl(SubSeq(val, 1, 4)) ELSE label
                /\ pw_status' =
                     IF /\ tlv_type = TLV_TYPE_PW_STATUS
                        /\ type = MSG_TYPE_LABELMAPPING
                     THEN ntohl(SubSeq(val, 1, 4)) ELSE pw_status
                /\ flags' =
                     flags
                     \cup (IF /\ tlv_type = TLV_TYPE_LABELREQUEST
                              /\ type \in {MSG_TYPE_LABELMAPPING,
                                           MSG_TYPE_LABELREQUEST}
                           THEN {"F_MAP_REQ_ID"} ELSE {})
                     \cup (IF /\ tlv_type = TLV_TYPE_PW_STATUS
                              /\ type = MSG_TYPE_LABELMAPPING
                           THEN {"F_MAP_PW_STATUS"} ELSE {})
                /\ notifs' =
                     IF /\ tlv_type \notin KnownTlvs
                        /\ ~BitSet(tlv_type, UNKNOWN_FLAG)
                     THEN Append(notifs, Notif("S_UNKNOWN_TLV", tlv_type,
                                               tlv_len, val))
                     ELSE notifs
                /\ rpos' = rpos + TLV_HDR_SIZE + tlv_len
                /\ rlen' = n
                /\ current_tlv' = (current_tlv + 1) % U16
                /\ pc' = AfterTlv(n)
                /\ UNCHANGED << rbuf, feclen, cur, rmh, delivered, shutdowns,
                                ret >>
    /\ UNCHANGED << type, nbr, sendVars >>

\* the test of lines 406-410 left out: a PWid record may have any label
DispatchAnyPwLabel(me) ==
    LET m1 == [me EXCEPT !.flags = @ \cup flags]
        m2 == IF m1.type = MAP_TYPE_PWID /\ "F_MAP_PW_STATUS" \in m1.flags
              THEN [m1 EXCEPT !.pw_status = pw_status] ELSE m1
        m3 == [m2 EXCEPT !.label = label]
        m4 == IF "F_MAP_REQ_ID" \in m3.flags
              THEN [m3 EXCEPT !.requestid = reqid] ELSE m3
        out(shut, skip) == [shut |-> shut, skip |-> skip, map |-> m4]
    IN  IF m1.type = MAP_TYPE_PREFIX /\ m1.af = AF_INET
        THEN IF label = MPLS_LABEL_IPV6_EXPLICIT_NULL
             THEN out("S_BAD_TLV_VAL", FALSE)
             ELSE out("", ~nbr.v4_enabled)
        ELSE IF m1.type = MAP_TYPE_PREFIX /\ m1.af = AF_INET6
        THEN IF label = MPLS_LABEL_IPV4_EXPLICIT_NULL
             THEN out("S_BAD_TLV_VAL", FALSE)
             ELSE out("", ~nbr.v6_enabled)
        ELSE out("", FALSE)

\* the tests of lines 391-392 and 399-400 left out: no family is disabled
DispatchAll(me) ==
    LET m1 == [me EXCEPT !.flags = @ \cup flags]
        m2 == IF m1.type = MAP_TYPE_PWID /\ "F_MAP_PW_STATUS" \in m1.flags
              THEN [m1 EXCEPT !.pw_status = pw_status] ELSE m1
        m3 == [m2 EXCEPT !.label = label]
        m4 == IF "F_MAP_REQ_ID" \in m3.flags
              THEN [m3 EXCEPT !.requestid = reqid] ELSE m3
        out(shut, skip) == [shut |-> shut, skip |-> skip, map |-> m4]
    IN  IF m1.type = MAP_TYPE_PREFIX /\ m1.af = AF_INET
        THEN IF label = MPLS_LABEL_IPV6_EXPLICIT_NULL
             THEN out("S_BAD_TLV_VAL", FALSE)
             ELSE out("", FALSE)
        ELSE IF m1.type = MAP_TYPE_PREFIX /\ m1.af = AF_INET6
        THEN IF label = MPLS_LABEL_IPV4_EXPLICIT_NULL
             THEN out("S_BAD_TLV_VAL", FALSE)
             ELSE out("", FALSE)
        ELSE IF m1.type = MAP_TYPE_PWID
        THEN IF U32Le(label, MPLS_LABEL_RESERVED_MAX)
             THEN out("S_BAD_TLV_VAL", FALSE)
             ELSE out("", FALSE)
        ELSE out("", FALSE)

\* lines 383-423: what becomes of the record me at the head of the queue:
\* the session is shut down (shut), the record is skipped (skip), or it is
\* delivered as map
Dispatch(me) ==
    LET m1 == [me EXCEPT !.flags = @ \cup flags]
        m2 == IF m1.type = MAP_TYPE_PWID /\ "F_MAP_PW_STATUS" \in m1.flags
              THEN [m1 EXCEPT !.pw_status = pw_status] ELSE m1
        m3 == [m2 EXCEPT !.label = label]
        m4 == IF "F_MAP_REQ_ID" \in m3.flags
              THEN [m3 EXCEPT !.requestid = reqid] ELSE m3
        out(shut, skip) == [shut |-> shut, skip |-> skip, map |-> m4]
    IN  IF m1.type = MAP_TYPE_PREFIX /\ m1.af = AF_INET
        THEN IF label = MPLS_LABEL_IPV6_EXPLICIT_NULL
             THEN out("S_BAD_TLV_VAL", FALSE)
             ELSE out("", ~nbr.v4_enabled)
        ELSE IF m1.type = MAP_TYPE_PREFIX /\ m1.af = AF_INET6
        THEN IF label = MPLS_LABEL_IPV4_EXPLICIT_NULL
             THEN out("S_BAD_TLV_VAL", FALSE)
             ELSE out("", ~nbr.v6_enabled)
        ELSE IF m1.type = MAP_TYPE_PWID
        THEN IF U32Le(label, MPLS_LABEL_RESERVED_MAX)
             THEN out("S_BAD_TLV_VAL", FALSE)
             ELSE out("", FALSE)
        ELSE out("", FALSE)

\* the record at the head of the queue is given to lde before its label is
\* checked
recv_dispatch_unchecked ==
    /\ pc = "recv_dispatch"
    /\ rmh # << >>
    /\ \E d \in {Dispatch(Head(rmh))} :
          /\ delivered' =
                IF d.skip THEN delivered
                ELSE Append(delivered, [imsg_type |-> ImsgType(type),
                                        map |-> d.map])
          /\ rmh' = IF d.shut # "" THEN << >> ELSE Tail(rmh)
          /\ pc' = IF d.shut # "" \/ Tail(rmh) = << >> THEN "recv_done"
                   ELSE pc
          /\ ret' = IF d.shut # "" THEN -1 ELSE 0
          /\ shutdowns' = IF d.shut # "" THEN Append(shutdowns, d.shut)
                          ELSE shutdowns
          /\ UNCHANGED << rbuf, rpos, rlen, feclen, cur, label, reqid,
                          pw_status, flags, current_tlv, notifs >>
    /\ UNCHANGED << type, nbr, sendVars >>

\* lines 380-456: one iteration of the loop that notifies lde, and the
\* return of 0 once the queue is empty
recv_dispatch ==
    /\ pc = "recv_dispatch"
    /\ rmh # << >>
    /\ \E d \in {Dispatch(Head(rmh))} :
          IF d.shut # "" THEN RecvErr(d.shut, "")
          ELSE /\ delivered' =
                     IF d.skip THEN delivered
                     ELSE Append(delivered, [imsg_type |-> ImsgType(type),
                                             map |-> d.map])
               /\ rmh' = Tail(rmh)
               /\ pc' = IF Tail(rmh) = << >> THEN "recv_done" ELSE pc
               /\ ret' = 0
               /\ UNCHANGED << rbuf, rpos, rlen, feclen, cur, label, reqid,
                               pw_status, flags, current_tlv, notifs,
                               shutdowns >>
    /\ UNCHANGED << type, nbr, sendVars >>

NextRecv ==
    \/ recv_entry
    \/ recv_fec
    \/ recv_subtlv
    \/ recv_opt
    \/ recv_dispatch


(***************************************************************************)
(* The messages recv_labelmessage is called with.                          *)
(***************************************************************************)
\* FEC elements: an IPv4 prefix 10.0.0.0/24, an IPv6 prefix 2001::/16, a
\* PWid element with control word, PW ID and interface MTU 1500, a Wildcard,
\* a Typed Wildcard for IPv4 prefixes
RecvElems ==
    { <<MAP_TYPE_PREFIX>> \o htons(AF_IPV4) \o <<24, 10, 0, 0>>,
      <<MAP_TYPE_PREFIX>> \o htons(AF_IPV6) \o <<16, 32, 1>>,
      <<MAP_TYPE_PWID>> \o htons(CONTROL_WORD_FLAG + 5) \o <<8>> \o htonl(1)
          \o htonl(9) \o <<SUBTLV_IFMTU, FEC_SUBTLV_IFMTU_SIZE>>
          \o htons(1500),
      <<MAP_TYPE_WILDCARD>>,
      <<MAP_TYPE_TYPED_WCARD, MAP_TYPE_PREFIX, 2>> \o htons(AF_IPV4) }

Tlv(t, val) == htons(t) \o htons(Len(val)) \o val

\* optional TLVs: the labels 100, 0 (IPv4 Explicit Null) and 5 (reserved),
\* a Request ID, a Hop Count, a PW Status
RecvTlvs ==
    { Tlv(TLV_TYPE_GENERICLABEL, htonl(100)),
      Tlv(TLV_TYPE_GENERICLABEL, htonl(MPLS_LABEL_IPV4_EXPLICIT_NULL)),
      Tlv(TLV_TYPE_GENERICLABEL, htonl(5)),
      Tlv(TLV_TYPE_LABELREQUEST, htonl(7)),
      Tlv(TLV_TYPE_HOPCOUNT, <<1>>),
      Tlv(TLV_TYPE_PW_STATUS, htonl(1)) }

SeqsUpTo(S, n) == UNION { [1..k -> S] : k \in 0..n }

\* a message of type t: header, a TLV of type ft and declared length fl
\* holding the bytes fec, then the bytes opt
RecvMsg(t, ft, fl, fec, opt) ==
    htons(t) \o htons(LDP_MSG_DEAD_LEN + TLV_HDR_SIZE + Len(fec) + Len(opt))
    \o htonl(1) \o htons(ft) \o htons(fl) \o fec \o opt

\* well-formed FEC TLVs of 1..MaxElems elements and 0..MaxTlvs optional TLVs
GoodMsgs ==
    { RecvMsg(t, TLV_TYPE_FEC, Len(Flatten(es)), Flatten(es), Flatten(ts)) :
        t \in MsgTypes, es \in SeqsUpTo(RecvElems, MaxElems) \ {<< >>},
        ts \in SeqsUpTo(RecvTlvs, MaxTlvs) }

\* messages with a broken FEC TLV header: cut short, of another type, of a
\* length that is 0 or exceeds the message
BadMsgs ==
    { htons(t) \o htons(LDP_MSG_DEAD_LEN + 2) \o htonl(1) \o <<1, 0>> :
        t \in MsgTypes }
    \cup
    { RecvMsg(t, ft, fl, e, o) :
        t \in MsgTypes,
        ft \in {TLV_TYPE_GENERICLABEL},
        fl \in {0}, e \in RecvElems, o \in {<< >>} }
    \cup
    UNION { { RecvMsg(t, TLV_TYPE_FEC, fl, e, o) :
                t \in MsgTypes, fl \in {0, Len(e) + Len(o) + 1} } :
            e \in RecvElems \cup {<< >>}, o \in RecvTlvs \cup {<< >>} }

InitRecv ==
    /\ pc = "recv"
    /\ \E m \in GoodMsgs \cup BadMsgs :
          /\ rbuf = m
          /\ rlen = Len(m)
          /\ type = ntohs(SubSeq(m, 1, 2))
    /\ \E v4 \in BOOLEAN :
          nbr = [max_pdu_len |-> 4096, stats |-> ZeroStats,
                 v4_enabled |-> v4, v6_enabled |-> TRUE]
    /\ rpos = 0
    /\ feclen = 0
    /\ cur = NoCur
    /\ label = NO_LABEL
    /\ reqid = 0
    /\ pw_status = 0
    /\ flags = {}
    /\ current_tlv = 1
    /\ rmh = << >>
    /\ delivered = << >>
    /\ notifs = << >>
    /\ shutdowns = << >>
    /\ ret = 0
    /\ SendIdle

SpecRecv == InitRecv /\ [][NextRecv]_vars


(***************************************************************************)
(* Properties of recv_labelmessage.                                        *)
(***************************************************************************)
RecvFailed == pc = "recv_done" /\ ret = -1

\* C8 (as stated): whenever recv_labelmessage returns failure, no record of
\* the message has been delivered to lde, whatever the stage of the fault.
C8_AllOrNothing == RecvFailed => delivered = << >>

\* C8: a failure return stops delivery and empties the queue of decoded
\* records.  When the fault is found while the FEC TLV or the optional TLVs
\* are parsed, no record has been delivered; when it is found at dispatch,
\* the failing record and those behind it are not delivered, the records
\* ahead of it stay delivered.
C8_FaultStopsDelivery ==
    [][ (pc # "recv_done" /\ pc' = "recv_done" /\ ret' = -1)
        => /\ delivered' = delivered
           /\ rmh' = << >>
           /\ (pc # "recv_dispatch" => delivered = << >>)
      ]_vars

\* a failure found at an optional TLV, after records had been queued: none
\* was delivered
C8_Witness ==
    /\ RecvFailed
    /\ type = MSG_TYPE_LABELMAPPING
    /\ current_tlv > 1
    /\ rlen > 0
    /\ delivered = << >>

\* the type of the first TLV after the FEC TLV
FirstOptTlvType ==
    ntohs(SubSeq(rbuf,
                 LDP_MSG_SIZE + TLV_HDR_SIZE + ntohs(SubSeq(rbuf, 11, 12)) + 1,
                 LDP_MSG_SIZE + TLV_HDR_SIZE + ntohs(SubSeq(rbuf, 11, 12)) + 2))

\* C9 (as stated): in a Label Mapping message a first optional TLV of any
\* type other than Generic Label is refused, so the decoder gets past the
\* first optional TLV only when that TLV is a Generic Label TLV.
C9_FirstTlvMustBeLabel ==
    (type = MSG_TYPE_LABELMAPPING /\ current_tlv > 1)
        => FirstOptTlvType = TLV_TYPE_GENERICLABEL

\* C10 (as stated): every record delivered with the mapping event carries a
\* real label, never NO_LABEL.
C10_MappingHasLabel ==
    \A i \in 1..Len(delivered) :
        delivered[i].imsg_type = "IMSG_LABEL_MAPPING"
            => delivered[i].map.label # NO_LABEL


(***************************************************************************)
(* The module as a whole: one call of either function.                     *)
(***************************************************************************)
Init == InitSend \/ InitRecv

Next == NextSend \/ NextRecv

Spec == Init /\ [][Next]_vars


(***************************************************************************)
(* Calls of recv_labelmessage that exercise the optional TLVs: one or two  *)
(* FEC elements, up to MaxTlvs optional TLVs of many kinds, either address *)
(* family disabled on the neighbor.                                        *)
(***************************************************************************)
\* a call of recv_labelmessage with a message of Msgs, by a neighbor whose
\* v4_enabled and v6_enabled are drawn from Enabled
RecvCall(Msgs, Enabled) ==
    /\ pc = "recv"
    /\ \E m \in Msgs :
          /\ rbuf = m
          /\ rlen = Len(m)
          /\ type = ntohs(SubSeq(m, 1, 2))
    /\ \E en \in Enabled :
          nbr = [max_pdu_len |-> 4096, stats |-> ZeroStats,
                 v4_enabled |-> en[1], v6_enabled |-> en[2]]
    /\ rpos = 0
    /\ feclen = 0
    /\ cur = NoCur
    /\ label = NO_LABEL
    /\ reqid = 0
    /\ pw_status = 0
    /\ flags = {}
    /\ current_tlv = 1
    /\ rmh = << >>
    /\ delivered = << >>
    /\ notifs = << >>
    /\ shutdowns = << >>
    /\ ret = 0
    /\ SendIdle

ElemPrefix4 == <<MAP_TYPE_PREFIX>> \o htons(AF_IPV4) \o <<24, 10, 0, 0>>

ElemPrefix6 == <<MAP_TYPE_PREFIX>> \o htons(AF_IPV6) \o <<16, 32, 1>>

ElemPwid ==
    <<MAP_TYPE_PWID>> \o htons(CONTROL_WORD_FLAG + 5) \o <<8>> \o htonl(1)
    \o htonl(9) \o <<SUBTLV_IFMTU, FEC_SUBTLV_IFMTU_SIZE>> \o htons(1500)

OptFecs ==
    { ElemPrefix4, ElemPrefix6, ElemPwid, ElemPrefix4 \o ElemPrefix6,
      ElemPrefix6 \o ElemPrefix4 }

\* the labels 100, 0 (IPv4 Explicit Null), 2 (IPv6 Explicit Null),
\* 5 (reserved) and 2^20 (above MPLS_LABEL_MAX); an ATM Label TLV; TLVs of
\* the unknown type 0x0d00, without and with the U bit
OptTlvs ==
    { Tlv(TLV_TYPE_GENERICLABEL, htonl(100)),
      Tlv(TLV_TYPE_GENERICLABEL, htonl(MPLS_LABEL_IPV4_EXPLICIT_NULL)),
      Tlv(TLV_TYPE_GENERICLABEL, htonl(MPLS_LABEL_IPV6_EXPLICIT_NULL)),
      Tlv(TLV_TYPE_GENERICLABEL, htonl(5)),
      Tlv(TLV_TYPE_GENERICLABEL, htonl(MPLS_LABEL_MAX + 1)),
      Tlv(TLV_TYPE_ATMLABEL, htonl(1)),
      Tlv(3328, <<7>>),
      Tlv(UNKNOWN_FLAG + 3328, <<7>>) }

OptMsgs ==
    { RecvMsg(t, TLV_TYPE_FEC, Len(fec), fec, Flatten(ts)) :
        t \in MsgTypes, fec \in OptFecs, ts \in SeqsUpTo(OptTlvs, MaxTlvs) }

InitRecvOpt ==
    RecvCall(OptMsgs, {<<TRUE, TRUE>>, <<FALSE, TRUE>>, <<TRUE, FALSE>>})

SpecRecvOpt == InitRecvOpt /\ [][NextRecv]_vars

\* the optional TLV the loop of recv_labelmessage stands at
AtTlv == pc = "recv_opt" /\ rlen >= TLV_HDR_SIZE

CurTlvType == ntohs(SubSeq(rbuf, rpos + 1, rpos + 2))

CurTlvLen == ntohs(SubSeq(rbuf, rpos + 3, rpos + 4))

CurTlvVal == SubSeq(rbuf, rpos + TLV_HDR_SIZE + 1,
                    rpos + TLV_HDR_SIZE + CurTlvLen)

\* a Generic Label TLV, whole, whose label is above MPLS_LABEL_MAX or is
\* reserved and none of the three labels allowed
AtBadLabelTlv ==
    /\ AtTlv
    /\ CurTlvType = TLV_TYPE_GENERICLABEL
    /\ CurTlvLen = LABEL_TLV_LEN
    /\ rlen >= TLV_HDR_SIZE + LABEL_TLV_LEN
    /\ ntohl(CurTlvVal) \notin (MPLS_LABEL_RESERVED_MAX + 1)..MPLS_LABEL_MAX
    /\ ntohl(CurTlvVal) \notin {MPLS_LABEL_IPV4_EXPLICIT_NULL,
                                MPLS_LABEL_IPV6_EXPLICIT_NULL,
                                MPLS_LABEL_IMPLICIT_NULL}

ShutdownWith(status) ==
    /\ pc' = "recv_done"
    /\ ret' = -1
    /\ shutdowns' = Append(shutdowns, status)
    /\ notifs' = notifs
    /\ delivered' = delivered

\* C11 (as stated): for every Label message type a Generic Label TLV with an
\* invalid label ends in session shutdown with BadTlvVal, failure and no
\* record delivered.
C11_BadLabelAnyType ==
    [][ AtBadLabelTlv => (ShutdownWith("S_BAD_TLV_VAL") /\ delivered' = << >>)
      ]_vars

\* C11: in a Label Mapping, Withdraw or Release message a Generic Label TLV
\* with an invalid label ends in session shutdown with BadTlvVal, failure
\* and no record delivered; in a Label Request or Abort Request message the
\* Generic Label TLV is skipped unread, whatever its value.
C11_BadLabelFails ==
    [][ AtBadLabelTlv =>
          IF type \in {MSG_TYPE_LABELMAPPING, MSG_TYPE_LABELWITHDRAW,
                       MSG_TYPE_LABELRELEASE}
          THEN ShutdownWith("S_BAD_TLV_VAL") /\ delivered' = << >>
          ELSE /\ pc' \in {"recv_opt", "recv_dispatch"}
               /\ label' = label
               /\ shutdowns' = shutdowns
               /\ notifs' = notifs
               /\ rpos' = rpos + TLV_HDR_SIZE + LABEL_TLV_LEN
      ]_vars

\* a Label Withdraw refused at a label above MPLS_LABEL_MAX
C11_Witness ==
    /\ RecvFailed
    /\ type = MSG_TYPE_LABELWITHDRAW
    /\ shutdowns = <<"S_BAD_TLV_VAL">>
    /\ delivered = << >>
    /\ rlen >= TLV_HDR_SIZE + LABEL_TLV_LEN
    /\ CurTlvType = TLV_TYPE_GENERICLABEL
    /\ CurTlvLen = LABEL_TLV_LEN
    /\ ntohl(CurTlvVal) = MPLS_LABEL_MAX + 1


(***************************************************************************)
(* The message as sent, read off rbuf: what the FEC TLV and the optional   *)
(* TLVs hold, and the records the elements of RecvElems stand for.         *)
(***************************************************************************)
\* the message has a FEC TLV whose declared length lies within the message
FecTlvWhole ==
    /\ Len(rbuf) >= LDP_MSG_SIZE + TLV_HDR_SIZE
    /\ ntohs(SubSeq(rbuf, 9, 10)) = TLV_TYPE_FEC
    /\ ntohs(SubSeq(rbuf, 11, 12)) <= Len(rbuf) - LDP_MSG_SIZE - TLV_HDR_SIZE

FecBody ==
    SubSeq(rbuf, LDP_MSG_SIZE + TLV_HDR_SIZE + 1,
           LDP_MSG_SIZE + TLV_HDR_SIZE + ntohs(SubSeq(rbuf, 11, 12)))

OptBody ==
    SubSeq(rbuf, LDP_MSG_SIZE + TLV_HDR_SIZE + ntohs(SubSeq(rbuf, 11, 12)) + 1,
           Len(rbuf))

ElemWildcard == <<MAP_TYPE_WILDCARD>>

ElemTwcard == <<MAP_TYPE_TYPED_WCARD, MAP_TYPE_PREFIX, 2>> \o htons(AF_IPV4)

\* the record an element stands for, with the msg_id 1 of the messages
RefRecord(e) ==
    CASE e = ElemPrefix4 ->
           [ZeroMap EXCEPT !.type = MAP_TYPE_PREFIX, !.msg_id = 1,
              !.af = AF_INET, !.prefixlen = 24,
              !.prefix = <<10, 0, 0, 0, 0, 0, 0, 0, 0, 0, 0, 0, 0, 0, 0, 0>>]
      [] e = ElemPrefix6 ->
           [ZeroMap EXCEPT !.type = MAP_TYPE_PREFIX, !.msg_id = 1,
              !.af = AF_INET6, !.prefixlen = 16,
              !.prefix = <<32, 1, 0, 0, 0, 0, 0, 0, 0, 0, 0, 0, 0, 0, 0, 0>>]
      [] e = ElemPwid ->
           [ZeroMap EXCEPT !.type = MAP_TYPE_PWID, !.msg_id = 1,
              !.pw_type = 5, !.group_id = 1, !.pwid = 9, !.ifmtu = 1500,
              !.flags = {"F_MAP_PW_CWORD", "F_MAP_PW_ID", "F_MAP_PW_IFMTU"}]
      [] e = ElemWildcard ->
           [ZeroMap EXCEPT !.type = MAP_TYPE_WILDCARD, !.msg_id = 1]
      [] e = ElemTwcard ->
           [ZeroMap EXCEPT !.type = MAP_TYPE_TYPED_WCARD, !.msg_id = 1,
              !.tw_type = MAP_TYPE_PREFIX, !.tw_af = AF_INET]

\* C12: a Label Request, Withdraw, Release or Abort Request whose FEC TLV
\* holds two FEC elements returns failure with one session shutdown and no
\* record delivered; a Label Mapping whose FEC TLV holds two Prefix
\* elements, followed by the Generic Label TLV of an ordinary label, both
\* address families enabled, returns success with two records delivered,
\* one per element, in the order of the elements.
C12_Cardinality ==
    (pc = "recv_done" /\ FecTlvWhole) =>
       /\ \A e1, e2 \in RecvElems :
             (type # MSG_TYPE_LABELMAPPING /\ FecBody = e1 \o e2) =>
                /\ ret = -1
                /\ Len(shutdowns) = 1
                /\ notifs = << >>
                /\ delivered = << >>
       /\ \A e1, e2 \in {ElemPrefix4, ElemPrefix6} :
             ( /\ type = MSG_TYPE_LABELMAPPING
               /\ FecBody = e1 \o e2
               /\ OptBody = Tlv(TLV_TYPE_GENERICLABEL, htonl(100))
               /\ nbr.v4_enabled /\ nbr.v6_enabled ) =>
                /\ ret = 0
                /\ shutdowns = << >>
                /\ notifs = << >>
                /\ delivered =
                     << [imsg_type |-> "IMSG_LABEL_MAPPING",
                         map |-> [RefRecord(e1) EXCEPT !.label = 100]],
                        [imsg_type |-> "IMSG_LABEL_MAPPING",
                         map |-> [RefRecord(e2) EXCEPT !.label = 100]] >>

\* a Label Mapping with an IPv4 and an IPv6 prefix, both delivered
C12_Witness ==
    /\ pc = "recv_done"
    /\ ret = 0
    /\ type = MSG_TYPE_LABELMAPPING
    /\ FecBody = ElemPrefix4 \o ElemPrefix6
    /\ Len(delivered) = 2
    /\ delivered[1].map.af = AF_INET
    /\ delivered[2].map.af = AF_INET6
    /\ delivered[2].map.label = 100


(***************************************************************************)
(* Calls of recv_labelmessage that exercise the FEC elements: up to        *)
(* MaxElems elements of many kinds, sound and unsound, and a few tails of  *)
(* optional TLVs.                                                          *)
(***************************************************************************)
\* an element of the unknown type 9
ElemUnknown == <<9>>

\* a Prefix element of the address family 3
ElemBadAf == <<MAP_TYPE_PREFIX>> \o htons(3) \o <<8, 10>>

\* a PWid element without PW ID
ElemPwidNoId == <<MAP_TYPE_PWID>> \o htons(5) \o <<0>> \o htonl(1)

\* a Typed Wildcard for the unknown inner type 9
ElemTwUnknown == <<MAP_TYPE_TYPED_WCARD, 9, 0>>

\* a PWid element whose only sub-TLV has the unknown type 2 and the length 0
ElemPwidZero ==
    <<MAP_TYPE_PWID>> \o htons(5) \o <<6>> \o htonl(1) \o htonl(9) \o <<2, 0>>

\* a PWid element with a sub-TLV of the unknown type 3 and the length 2,
\* then the interface MTU
ElemPwidSkip ==
    <<MAP_TYPE_PWID>> \o htons(5) \o <<10>> \o htonl(1) \o htonl(9) \o <<3, 2>>
    \o <<SUBTLV_IFMTU, FEC_SUBTLV_IFMTU_SIZE>> \o htons(1500)

\* a PWid element whose first sub-TLV has the unknown type 3 and the length 1
ElemPwidOne ==
    <<MAP_TYPE_PWID>> \o htons(5) \o <<7>> \o htonl(1) \o htonl(9)
    \o <<3, 1, 4>>

FecElems ==
    { ElemPrefix4, ElemPwid, ElemUnknown, ElemBadAf, ElemPwidNoId,
      ElemTwUnknown, ElemPwidZero, ElemPwidSkip, ElemPwidOne }

FecTails ==
    { << >>,
      Tlv(TLV_TYPE_GENERICLABEL, htonl(100)),
      Tlv(TLV_TYPE_GENERICLABEL, htonl(100)) \o Tlv(3328, <<7>>),
      Tlv(TLV_TYPE_GENERICLABEL, htonl(100)) \o Tlv(3328, <<7>>)
          \o Tlv(TLV_TYPE_LABELREQUEST, htonl(7)) }

FecMsgs ==
    { RecvMsg(t, TLV_TYPE_FEC, Len(Flatten(es)), Flatten(es), o) :
        t \in MsgTypes, es \in SeqsUpTo(FecElems, MaxElems) \ {<< >>},
        o \in FecTails }

InitRecvFec == RecvCall(FecMsgs, {<<TRUE, TRUE>>})

SpecRecvFec == InitRecvFec /\ [][NextRecv]_vars

\* the step sends a notification
Notifies(status) ==
    /\ Len(notifs') = Len(notifs) + 1
    /\ notifs'[Len(notifs')].status = status

\* the step sends the notification of one of the recoverable conditions:
\* UnsupportedAddressFamily or UnknownFec of an element, MissingMessage of
\* a PWid element without PW ID, UnknownTlv
RecoverableStep ==
    \/ pc \in {"recv_fec", "recv_subtlv"}
       /\ \/ Notifies("S_UNSUP_ADDR")
          \/ Notifies("S_UNKNOWN_FEC")
          \/ Notifies("S_MISS_MSG")
    \/ pc = "recv_opt" /\ Notifies("S_UNKNOWN_TLV")

\* C13 (as stated): a recoverable condition calls no session_shutdown,
\* sends a notification and does not end the decoding of the message: the
\* call goes on with what is left of the message.
C13_RecoverableGoesOn ==
    [][ RecoverableStep => /\ shutdowns' = shutdowns
                           /\ pc' # "recv_done"
                           /\ rmh' # << >>
      ]_vars

\* C13: a recoverable condition calls no session_shutdown and sends one
\* notification.  UnknownTlv skips the TLV and decoding goes on with the
\* next TLV, the queue of records untouched.  UnsupportedAddressFamily,
\* UnknownFec and the MissingMessage of a PWid element without PW ID end
\* the decoding of the whole message: the records already queued are
\* discarded, nothing is delivered and recv_labelmessage returns failure.
C13_RecoverableStops ==
    [][ RecoverableStep =>
          /\ shutdowns' = shutdowns
          /\ IF pc = "recv_opt"
             THEN /\ pc' \in {"recv_opt", "recv_dispatch"}
                  /\ rmh' = rmh
                  /\ rpos' = rpos + TLV_HDR_SIZE + CurTlvLen
                  /\ current_tlv' = current_tlv + 1
             ELSE /\ pc' = "recv_done"
                  /\ ret' = -1
                  /\ rmh' = << >>
                  /\ delivered' = << >>
      ]_vars

\* an element of unknown type behind a Prefix element in a Label Mapping:
\* one notification, no shutdown, failure, the Prefix record never delivered
C13_Witness ==
    /\ RecvFailed
    /\ type = MSG_TYPE_LABELMAPPING
    /\ FecTlvWhole
    /\ FecBody = ElemPrefix4 \o ElemUnknown
    /\ Len(notifs) = 1
    /\ notifs[1].status = "S_UNKNOWN_FEC"
    /\ shutdowns = << >>
    /\ delivered = << >>

\* C20 (as stated): in the sub-TLV loop of tlv_decode_fec_elm the budget
\* pw_len strictly decreases on every iteration, for every sub-TLV type and
\* every declared sub-TLV length.
C20_BudgetDecreases ==
    [][ (pc = "recv_subtlv" /\ pc' = "recv_subtlv")
          => cur'.pw_len < cur.pw_len ]_vars


(***************************************************************************)
(* Round trip: the message send_labelmessage writes for one record (lines  *)
(* 81-91: gen_msg_hdr, gen_fec_tlv, then the generators of the optional    *)
(* TLVs the record asks for), given to recv_labelmessage.  mh0 holds the   *)
(* record that was encoded.                                                *)
(***************************************************************************)
Encode(t, map) ==
    Flatten(gen_msg_hdr(t, MsgSize(map)))
    \o Flatten(gen_fec_tlv(map))
    \o (IF map.label # NO_LABEL THEN Flatten(gen_label_tlv(map.label))
        ELSE << >>)
    \o (IF "F_MAP_REQ_ID" \in map.flags
        THEN Flatten(gen_reqid_tlv(map.requestid)) ELSE << >>)
    \o (IF "F_MAP_PW_STATUS" \in map.flags
        THEN Flatten(gen_pw_status_tlv(map.pw_status)) ELSE << >>)
    \o (IF "F_MAP_STATUS" \in map.flags
        THEN Flatten(gen_status_tlv(0, 0, 0)) ELSE << >>)

RTLabels == {NO_LABEL, 100}

RTMaps ==
    UNION {
      { PrefixMap(AF_INET, 24, <<10, 0, 0, 0>>, l, fl),
        PrefixMap(AF_INET6, 16,
                  <<32, 1, 0, 0, 0, 0, 0, 0, 0, 0, 0, 0, 0, 0, 0, 0>>, l, fl) }
        : l \in RTLabels,
          fl \in SUBSET {"F_MAP_REQ_ID", "F_MAP_PW_STATUS", "F_MAP_STATUS"} }
    \cup
    { [ZeroMap EXCEPT !.type = MAP_TYPE_WILDCARD, !.label = l, !.flags = fl,
                      !.requestid = 7]
        : l \in RTLabels, fl \in SUBSET {"F_MAP_REQ_ID", "F_MAP_STATUS"} }
    \cup
    UNION {
      { [ZeroMap EXCEPT !.type = MAP_TYPE_TYPED_WCARD, !.label = l,
                        !.flags = fl, !.tw_type = MAP_TYPE_PREFIX,
                        !.tw_af = AF_INET],
        [ZeroMap EXCEPT !.type = MAP_TYPE_TYPED_WCARD, !.label = l,
                        !.flags = fl, !.tw_type = MAP_TYPE_PREFIX,
                        !.tw_af = AF_INET6],
        [ZeroMap EXCEPT !.type = MAP_TYPE_TYPED_WCARD, !.label = l,
                        !.flags = fl, !.tw_type = MAP_TYPE_PWID,
                        !.tw_pw_type = 5] }
        : l \in RTLabels, fl \in SUBSET {"F_MAP_STATUS"} }
    \cup
    { PwidMap(l, fl)
        : l \in RTLabels,
          fl \in SUBSET {"F_MAP_PW_ID", "F_MAP_PW_IFMTU", "F_MAP_PW_CWORD",
                         "F_MAP_PW_STATUS", "F_MAP_REQ_ID"} }

InitRT ==
    /\ pc = "recv"
    /\ type \in MsgTypes
    /\ \E map \in RTMaps :
          /\ mh0 = << map >>
          /\ rbuf = Encode(type, map)
          /\ rlen = Len(Encode(type, map))
    /\ nbr = [max_pdu_len |-> 4096, stats |-> ZeroStats,
              v4_enabled |-> TRUE, v6_enabled |-> TRUE]
    /\ rpos = 0
    /\ feclen = 0
    /\ cur = NoCur
    /\ label = NO_LABEL
    /\ reqid = 0
    /\ pw_status = 0
    /\ flags = {}
    /\ current_tlv = 1
    /\ rmh = << >>
    /\ delivered = << >>
    /\ notifs = << >>
    /\ shutdowns = << >>
    /\ ret = 0
    /\ mh = << >>
    /\ buf = NoBuf
    /\ size = 0
    /\ first = TRUE
    /\ err = FALSE
    /\ wbuf = << >>
    /\ wbuf_lost = FALSE
    /\ freed = 0
    /\ evts = << >>
    /\ removed = << >>

SpecRT == InitRT /\ [][NextRecv]_vars

\* the decoded record d equals the encoded record m in label, FEC variant,
\* FEC payload and flags
SameRecord(m, d) ==
    /\ d.label = m.label
    /\ d.type = m.type
    /\ d.flags = m.flags
    /\ m.type = MAP_TYPE_PREFIX =>
          /\ d.af = m.af
          /\ d.prefixlen = m.prefixlen
          /\ d.prefix = Pad(m.prefix)
    /\ m.type = MAP_TYPE_PWID =>
          /\ d.pw_type = m.pw_type
          /\ d.group_id = m.group_id
          /\ "F_MAP_PW_ID" \in m.flags => d.pwid = m.pwid
          /\ "F_MAP_PW_IFMTU" \in m.flags => d.ifmtu = m.ifmtu
    /\ m.type = MAP_TYPE_TYPED_WCARD =>
          /\ d.tw_type = m.tw_type
          /\ m.tw_type = MAP_TYPE_PREFIX => d.tw_af = m.tw_af
          /\ m.tw_type = MAP_TYPE_PWID => d.tw_pw_type = m.tw_pw_type

\* the message type takes the record: its FEC variant is allowed in it, and
\* the optional TLVs the record asks for are among those the type decodes
TypeTakes(t, m) ==
    /\ m.type = MAP_TYPE_WILDCARD =>
          t \in {MSG_TYPE_LABELWITHDRAW, MSG_TYPE_LABELRELEASE}
    /\ m.type = MAP_TYPE_TYPED_WCARD =>
          t \in {MSG_TYPE_LABELREQUEST, MSG_TYPE_LABELWITHDRAW,
                 MSG_TYPE_LABELRELEASE}
    /\ (m.type = MAP_TYPE_PWID /\ "F_MAP_PW_ID" \notin m.flags) =>
          t \in {MSG_TYPE_LABELWITHDRAW, MSG_TYPE_LABELRELEASE}
    /\ m.label # NO_LABEL =>
          t \in {MSG_TYPE_LABELMAPPING, MSG_TYPE_LABELWITHDRAW,
                 MSG_TYPE_LABELRELEASE}
    /\ m.label = NO_LABEL => t # MSG_TYPE_LABELMAPPING
    /\ "F_MAP_REQ_ID" \in m.flags =>
          t \in {MSG_TYPE_LABELMAPPING, MSG_TYPE_LABELREQUEST}
    /\ "F_MAP_PW_STATUS" \in m.flags => t = MSG_TYPE_LABELMAPPING
    /\ "F_MAP_STATUS" \notin m.flags

\* C14 (as stated, read in its favour: only in a message type that takes
\* the record, and leaving the Status TLV aside): the record decoded from
\* the bytes written for a record equals it in label, FEC variant, FEC
\* payload and flags, and the decoder consumed as many bytes as were
\* written.
C14_RoundTrip ==
    (pc = "recv_done" /\ TypeTakes(type, mh0[1])) =>
       /\ ret = 0
       /\ Len(delivered) = 1
       /\ SameRecord(mh0[1], delivered[1].map)
       /\ rpos = Len(rbuf)


\* the fields of a record that come from its FEC element
FecPart(m) ==
    [type |-> m.type, af |-> m.af, prefixlen |-> m.prefixlen,
     prefix |-> m.prefix, pw_type |-> m.pw_type, group_id |-> m.group_id,
     pwid |-> m.pwid, ifmtu |-> m.ifmtu, tw_type |-> m.tw_type,
     tw_af |-> m.tw_af, tw_pw_type |-> m.tw_pw_type]

\* the element stands for a Prefix of an address family the neighbor has
\* disabled
Disabled(e) ==
    \/ e = ElemPrefix4 /\ ~nbr.v4_enabled
    \/ e = ElemPrefix6 /\ ~nbr.v6_enabled

\* the elements of es whose records are to reach lde, in their order
Kept(es) == SelectSeq(es, LAMBDA e : ~Disabled(e))

\* C15: on success recv_labelmessage has delivered one record per FEC
\* element of the FEC TLV, in the order of the elements, those of a disabled
\* address family left out, each with the event kind of the message type;
\* on return, success or failure, the local queue of records is empty.
C15_DeliveredInOrder ==
    pc = "recv_done" =>
       /\ rmh = << >>
       /\ (ret = 0 /\ FecTlvWhole) =>
             \A es \in SeqsUpTo(RecvElems, MaxElems) :
                FecBody = Flatten(es) =>
                   /\ Len(delivered) = Len(Kept(es))
                   /\ \A i \in 1..Len(delivered) :
                         /\ delivered[i].imsg_type = ImsgType(type)
                         /\ FecPart(delivered[i].map)
                              = FecPart(RefRecord(Kept(es)[i]))

\* a Label Mapping with an IPv4 and an IPv6 prefix from a neighbor with IPv4
\* disabled: the IPv6 record alone is delivered
C15_Witness ==
    /\ pc = "recv_done"
    /\ ret = 0
    /\ type = MSG_TYPE_LABELMAPPING
    /\ ~nbr.v4_enabled
    /\ FecBody = ElemPrefix4 \o ElemPrefix6
    /\ Len(delivered) = 1
    /\ delivered[1].imsg_type = "IMSG_LABEL_MAPPING"
    /\ delivered[1].map.af = AF_INET6
    /\ rmh = << >>


\* the element about to be decoded is e and fills what is left of the FEC TLV
AtLastElem(e) ==
    /\ pc = "recv_fec"
    /\ feclen = Len(e)
    /\ rpos + Len(e) <= Len(rbuf)
    /\ SubSeq(rbuf, rpos + 1, rpos + Len(e)) = e

NoWildcard == {MSG_TYPE_LABELMAPPING, MSG_TYPE_LABELREQUEST,
               MSG_TYPE_LABELABORTREQ}

NoTypedWildcard == {MSG_TYPE_LABELMAPPING, MSG_TYPE_LABELABORTREQ}

\* the element is refused with a session shutdown UnknownFec: failure, no
\* notification, nothing delivered
RefusedUnknownFec ==
    /\ ShutdownWith("S_UNKNOWN_FEC")
    /\ delivered' = << >>
    /\ rmh' = << >>

\* the element is taken: its record joins the queue, nothing is signalled
Accepted(t) ==
    /\ Len(rmh') = Len(rmh) + 1
    /\ rmh'[Len(rmh')].type = t
    /\ shutdowns' = shutdowns
    /\ notifs' = notifs
    /\ pc' # "recv_done"

\* C16: no Wildcard record is delivered from a Label Mapping, Request or
\* Abort Request, no Typed Wildcard record from a Label Mapping or Abort
\* Request; decoding such an element ends in session shutdown with
\* UnknownFec and failure, no record of the message delivered; a Wildcard
\* in a Label Withdraw or Release and a Typed Wildcard in a Label Request,
\* Withdraw or Release are accepted.
C16_WildcardRestricted ==
    /\ [](\A i \in 1..Len(delivered) :
            /\ delivered[i].map.type = MAP_TYPE_WILDCARD
                  => type \notin NoWildcard
            /\ delivered[i].map.type = MAP_TYPE_TYPED_WCARD
                  => type \notin NoTypedWildcard)
    /\ [][ /\ AtLastElem(ElemWildcard) =>
                IF type \in NoWildcard THEN RefusedUnknownFec
                ELSE Accepted(MAP_TYPE_WILDCARD)
           /\ AtLastElem(ElemTwcard) =>
                IF type \in NoTypedWildcard THEN RefusedUnknownFec
                ELSE Accepted(MAP_TYPE_TYPED_WCARD)
         ]_vars

\* a Label Mapping with a Prefix element and then a Wildcard element:
\* shutdown with UnknownFec, the Prefix record not delivered
C16_Witness ==
    /\ RecvFailed
    /\ type = MSG_TYPE_LABELMAPPING
    /\ FecTlvWhole
    /\ FecBody = ElemPrefix4 \o ElemWildcard
    /\ shutdowns = << "S_UNKNOWN_FEC" >>
    /\ delivered = << >>


\* the loop stands at an optional TLV that lies whole in the message
AtWholeTlv == AtTlv /\ rlen >= TLV_HDR_SIZE + CurTlvLen

\* the TLV types the statement of C17 names
NamedTlvs == {TLV_TYPE_GENERICLABEL, TLV_TYPE_LABELREQUEST, TLV_TYPE_STATUS,
              TLV_TYPE_PW_STATUS, TLV_TYPE_HOPCOUNT, TLV_TYPE_PATHVECTOR}

\* the step skips the TLV at hand: no failure, no shutdown, an UnknownTlv
\* notification with its type, length and value if its U bit is clear and
\* nothing if the bit is set, and the loop goes on behind it
SkippedAsUnknown ==
    /\ pc' \in {"recv_opt", "recv_dispatch"}
    /\ shutdowns' = shutdowns
    /\ notifs' = IF BitSet(CurTlvType, UNKNOWN_FLAG) THEN notifs
                 ELSE Append(notifs, Notif("S_UNKNOWN_TLV", CurTlvType,
                                           CurTlvLen, CurTlvVal))
    /\ rpos' = rpos + TLV_HDR_SIZE + CurTlvLen
    /\ current_tlv' = current_tlv + 1
    /\ rmh' = rmh
    /\ label' = label
    /\ flags' = flags

\* C17 (as stated): an optional TLV whose type is none of Generic Label,
\* Request-ID, Status, Pseudowire-Status, Hop-Count and Path-Vector never
\* makes recv_labelmessage fail, in any position and message type: one
\* UnknownTlv notification if its U bit is clear, nothing if set, and
\* decoding continues.
C17_OtherTlvSkipped ==
    [][ (AtWholeTlv /\ CurTlvType \notin NamedTlvs) => SkippedAsUnknown ]_vars

\* C17: an optional TLV whose type is none of Generic Label, ATM Label,
\* Frame Relay Label, Request-ID, Status, Pseudowire-Status, Hop-Count and
\* Path-Vector, and which is not the first optional TLV of a Label Mapping,
\* never makes recv_labelmessage fail: one UnknownTlv notification with its
\* type, length and value if its U bit is clear, nothing if set, and
\* decoding continues with the next TLV.
C17_UnknownTlvSkipped ==
    [][ ( /\ AtWholeTlv
          /\ CurTlvType \notin NamedTlvs \cup {TLV_TYPE_ATMLABEL,
                                                TLV_TYPE_FRLABEL}
          /\ ~(current_tlv = 1 /\ type = MSG_TYPE_LABELMAPPING) )
        => SkippedAsUnknown ]_vars

\* a Label Mapping delivered after a TLV of the unknown type 0x0d00, U bit
\* clear, behind its Generic Label TLV: one UnknownTlv notification
C17_Witness ==
    /\ pc = "recv_done"
    /\ ret = 0
    /\ type = MSG_TYPE_LABELMAPPING
    /\ OptBody = Tlv(TLV_TYPE_GENERICLABEL, htonl(100)) \o Tlv(3328, <<7>>)
    /\ notifs = << Notif("S_UNKNOWN_TLV", 3328, 1, <<7>>) >>
    /\ shutdowns = << >>
    /\ delivered # << >>


\* the record m is a Prefix of an address family disabled on the neighbor
OfDisabledFamily(m) ==
    /\ m.type = MAP_TYPE_PREFIX
    /\ \/ m.af = AF_INET /\ ~nbr.v4_enabled
       \/ m.af = AF_INET6 /\ ~nbr.v6_enabled

\* the dispatch loop is about to handle a record of a disabled family
AtDisabled ==
    /\ pc = "recv_dispatch"
    /\ rmh # << >>
    /\ OfDisabledFamily(Head(rmh))

\* the record at the head of the queue is dropped in silence and the loop
\* goes on with the records behind it
DroppedSilently ==
    /\ delivered' = delivered
    /\ notifs' = notifs
    /\ shutdowns' = shutdowns
    /\ rmh' = Tail(rmh)
    /\ ret' = 0
    /\ pc' = IF Tail(rmh) = << >> THEN "recv_done" ELSE "recv_dispatch"

\* the label decoded from the message is the explicit-null label of the
\* other address family than that of the Prefix record m
OtherNull(m) ==
    \/ m.af = AF_INET /\ label = MPLS_LABEL_IPV6_EXPLICIT_NULL
    \/ m.af = AF_INET6 /\ label = MPLS_LABEL_IPV4_EXPLICIT_NULL

NoDisabledDelivered ==
    \A i \in 1..Len(delivered) : ~OfDisabledFamily(delivered[i].map)

\* C18 (as stated): a Prefix record of an address family disabled on the
\* neighbor is never delivered, no notification and no session shutdown is
\* produced for it, and the records behind it are still processed.
C18_DisabledDropped ==
    /\ []NoDisabledDelivered
    /\ [][ AtDisabled => DroppedSilently ]_vars

\* C18: a Prefix record of an address family disabled on the neighbor is
\* never delivered.  Unless the label of the message is the explicit-null
\* label of the other address family, the record is dropped with no
\* notification and no session shutdown and the records behind it are still
\* processed; with that label, the compatibility check that precedes the
\* drop ends the session with BadTlvVal and the call fails.
C18_DisabledDroppedOrRefused ==
    /\ []NoDisabledDelivered
    /\ [][ AtDisabled =>
             IF OtherNull(Head(rmh))
             THEN ShutdownWith("S_BAD_TLV_VAL") /\ rmh' = << >>
             ELSE DroppedSilently ]_vars

\* a Label Mapping with an IPv6 and an IPv4 prefix from a neighbor with IPv6
\* disabled: the IPv4 record alone is delivered, nothing is signalled
C18_Witness ==
    /\ pc = "recv_done"
    /\ ret = 0
    /\ ~nbr.v6_enabled
    /\ type = MSG_TYPE_LABELMAPPING
    /\ FecBody = ElemPrefix6 \o ElemPrefix4
    /\ Len(delivered) = 1
    /\ delivered[1].map.af = AF_INET
    /\ notifs = << >>
    /\ shutdowns = << >>


\* the label l does not go with the record m: the explicit-null label of
\* the other address family for a Prefix, a label of the reserved range
\* 0..MPLS_LABEL_RESERVED_MAX for a PWid
BadPairing(m, l) ==
    \/ /\ m.type = MAP_TYPE_PREFIX
       /\ \/ m.af = AF_INET /\ l = MPLS_LABEL_IPV6_EXPLICIT_NULL
          \/ m.af = AF_INET6 /\ l = MPLS_LABEL_IPV4_EXPLICIT_NULL
    \/ /\ m.type = MAP_TYPE_PWID
       /\ l \in 0..MPLS_LABEL_RESERVED_MAX

\* C19: no delivered Prefix record pairs an IPv4 prefix with the IPv6
\* explicit-null label or an IPv6 prefix with the IPv4 explicit-null label,
\* no delivered PWid record has a label of at most MPLS_LABEL_RESERVED_MAX;
\* when the dispatch loop meets such a record the session is shut down with
\* BadTlvVal and the call fails.
C19_LabelFitsFec ==
    /\ [](\A i \in 1..Len(delivered) :
            ~BadPairing(delivered[i].map, delivered[i].map.label))
    /\ [][ ( /\ pc = "recv_dispatch"
             /\ rmh # << >>
             /\ BadPairing(Head(rmh), label) )
           => ShutdownWith("S_BAD_TLV_VAL") /\ rmh' = << >> ]_vars

\* a Label Mapping for a PWid element with the label 0: shutdown with
\* BadTlvVal at dispatch, nothing delivered
C19_Witness ==
    /\ RecvFailed
    /\ type = MSG_TYPE_LABELMAPPING
    /\ FecTlvWhole
    /\ FecBody = ElemPwid
    /\ label = MPLS_LABEL_IPV4_EXPLICIT_NULL
    /\ shutdowns = << "S_BAD_TLV_VAL" >>
    /\ delivered = << >>


(***************************************************************************)
(* The bytes the decoder reads.  Each operator gives how many bytes, from  *)
(* the buf pointer of the step on, the step reads before it returns or     *)
(* moves on.                                                               *)
(***************************************************************************)
\* tlv_decode_fec_elm up to its return or to its sub-TLV loop: the type byte
\* (line 674) is read whatever len is, the rest behind the length tests
FecReads(mem, p, n) ==
    LET t == mem[p + 1]
    IN  IF t = MAP_TYPE_PREFIX
        THEN IF n < FEC_ELM_PREFIX_MIN_LEN THEN 1
             ELSE IF ntohs(<< mem[p + 2], mem[p + 3] >>)
                        \notin {AF_IPV4, AF_IPV6} THEN 3
             ELSE IF (IF ntohs(<< mem[p + 2], mem[p + 3] >>) = AF_IPV4
                      THEN AF_INET ELSE AF_INET6) = AF_IPV6
                     /\ mem[p + 4] > IPV6_MAX_BITLEN THEN 4
             ELSE IF n < 4 + PREFIX_SIZE(mem[p + 4]) THEN 4
             ELSE 4 + PREFIX_SIZE(mem[p + 4])
        ELSE IF t = MAP_TYPE_PWID
        THEN IF n < FEC_PWID_ELM_MIN_LEN THEN 1
             ELSE IF n # FEC_PWID_ELM_MIN_LEN + mem[p + 4] THEN 4
             ELSE IF mem[p + 4] < 4 THEN 8
             ELSE 12
        ELSE IF t = MAP_TYPE_TYPED_WCARD
        THEN IF n < FEC_ELM_TWCARD_MIN_LEN THEN 1
             ELSE IF n # FEC_ELM_TWCARD_MIN_LEN + mem[p + 3] THEN 3
             ELSE IF mem[p + 2] \in {MAP_TYPE_PREFIX, MAP_TYPE_PWID}
                     /\ mem[p + 3] = 2 THEN 5
             ELSE 3
        ELSE 1

\* one iteration of the sub-TLV loop (lines 788-822), from buf + off on
SubReads(mem, p, pw_len) ==
    IF pw_len < SUBTLV_HDR_SIZE THEN 0
    ELSE IF mem[p + 2] > pw_len THEN SUBTLV_HDR_SIZE
    ELSE IF mem[p + 1] = SUBTLV_IFMTU /\ mem[p + 2] = FEC_SUBTLV_IFMTU_SIZE
    THEN FEC_SUBTLV_IFMTU_SIZE
    ELSE SUBTLV_HDR_SIZE

\* one iteration of the loop over the optional parameters (lines 240-377)
OptReads(mem, p, n) ==
    LET tlv_type == ntohs(<< mem[p + 1], mem[p + 2] >>)
        tlv_len == ntohs(<< mem[p + 3], mem[p + 4] >>)
    IN  IF n < TLV_HDR_SIZE THEN 0
        ELSE IF tlv_len + TLV_HDR_SIZE > n THEN TLV_HDR_SIZE
        ELSE IF /\ current_tlv = 1
                /\ type = MSG_TYPE_LABELMAPPING
                /\ ~FirstTlvTest(tlv_type)
        THEN TLV_HDR_SIZE
        ELSE IF OptTlvShut(tlv_type, tlv_len,
                           SubSeq(mem, p + TLV_HDR_SIZE + 1,
                                  p + TLV_HDR_SIZE + tlv_len)) # ""
        THEN IF tlv_type = TLV_TYPE_GENERICLABEL /\ tlv_len = LABEL_TLV_LEN
             THEN TLV_HDR_SIZE + LABEL_TLV_LEN ELSE TLV_HDR_SIZE
        ELSE IF \/ /\ tlv_type = TLV_TYPE_LABELREQUEST
                   /\ type \in {MSG_TYPE_LABELMAPPING, MSG_TYPE_LABELREQUEST}
                \/ /\ tlv_type = TLV_TYPE_GENERICLABEL
                   /\ type \in {MSG_TYPE_LABELMAPPING, MSG_TYPE_LABELWITHDRAW,
                                MSG_TYPE_LABELRELEASE}
                \/ /\ tlv_type = TLV_TYPE_PW_STATUS
                   /\ type = MSG_TYPE_LABELMAPPING
        THEN TLV_HDR_SIZE + 4
        ELSE IF tlv_type \notin KnownTlvs /\ ~BitSet(tlv_type, UNKNOWN_FLAG)
        THEN TLV_HDR_SIZE + tlv_len
        ELSE TLV_HDR_SIZE

\* the element decoder reads inside the FEC TLV and inside the message
FecReadsInBounds ==
    pc = "recv_fec" =>
       /\ FecReads(rbuf \o <<0>>, rpos, feclen % U16) <= feclen
       /\ rpos + FecReads(rbuf \o <<0>>, rpos, feclen % U16) <= Len(rbuf)

\* an iteration of the sub-TLV loop reads inside the PW info it has left,
\* inside the FEC TLV and inside the message
SubReadsInBounds ==
    pc = "recv_subtlv" =>
       /\ SubReads(rbuf, rpos + cur.off, cur.pw_len) <= cur.pw_len
       /\ cur.off + SubReads(rbuf, rpos + cur.off, cur.pw_len) <= feclen
       /\ rpos + cur.off + SubReads(rbuf, rpos + cur.off, cur.pw_len)
            <= Len(rbuf)

\* an iteration of the optional-TLV loop reads inside what is left of the
\* message
OptReadsInBounds ==
    pc = "recv_opt" =>
       /\ OptReads(rbuf, rpos, rlen) <= rlen
       /\ rpos + OptReads(rbuf, rpos, rlen) <= Len(rbuf)

\* C21 (as stated): every byte recv_labelmessage and tlv_decode_fec_elm read
\* lies inside the remaining FEC TLV budget feclen and inside the remaining
\* message, also when the declared length of the FEC TLV is 0 and when a
\* PWid sub-TLV declares the length 0 or 1.
C21_ReadsInBounds ==
    /\ FecReadsInBounds
    /\ SubReadsInBounds
    /\ OptReadsInBounds


\* the call stands in one of its loops
InLoops == pc \in {"recv_fec", "recv_subtlv", "recv_opt", "recv_dispatch"}

\* feclen and len are inside their ranges: neither is negative, feclen is at
\* most len, and len is what is left of the message behind buf (a wrapped len
\* would be more than that)
BudgetsSound ==
    InLoops =>
       /\ feclen >= 0
       /\ rlen >= 0
       /\ feclen <= rlen
       /\ rpos + rlen = Len(rbuf)

\* a successful return of tlv_decode_fec_elm before its sub-TLV loop is at
\* least 1 and at most the len it was given
ReturnInBudget ==
    pc = "recv_fec" =>
       \A j \in Junk :
          LET r == tlv_decode_fec_elm(rbuf \o <<j>>, rpos, feclen % U16,
                                      ZeroMap)
          IN  (~r.loop /\ r.ret # -1) => (r.ret >= 1 /\ r.ret <= feclen)

\* an iteration of the FEC element loop that queued a record took tlen bytes,
\* 1 <= tlen <= feclen, off feclen, len and buf alike
FecLoopStep ==
    (pc \in {"recv_fec", "recv_subtlv"} /\ Len(rmh') = Len(rmh) + 1) =>
       /\ rpos' - rpos >= 1
       /\ rpos' - rpos <= feclen
       /\ feclen' = feclen - (rpos' - rpos)
       /\ feclen' < feclen
       /\ rlen' = rlen - (rpos' - rpos)

\* an iteration of the optional-TLV loop that went through took the TLV off
\* len and buf alike, at least its header
OptLoopStep ==
    (pc = "recv_opt" /\ pc' # "recv_done") =>
       /\ rlen' <= rlen - TLV_HDR_SIZE
       /\ rlen' >= 0
       /\ rlen - rlen' = rpos' - rpos

\* C22: a successful tlv_decode_fec_elm returns at least 1 and at most the
\* budget it was given; feclen and len never become negative nor wrap
\* around; feclen strictly decreases on every iteration of the FEC element
\* loop and len on every iteration of the optional-TLV loop.
C22_BudgetsDecrease ==
    /\ [](BudgetsSound /\ ReturnInBudget)
    /\ [][FecLoopStep /\ OptLoopStep]_vars

\* a Label Mapping past two FEC elements, the second a PWid element with a
\* sub-TLV, and past its first optional TLV, a second one left to decode
C22_Witness ==
    /\ pc = "recv_opt"
    /\ type = MSG_TYPE_LABELMAPPING
    /\ Len(rmh) = 2
    /\ rmh[2].type = MAP_TYPE_PWID
    /\ "F_MAP_PW_IFMTU" \in rmh[2].flags
    /\ feclen = 0
    /\ current_tlv = 2
    /\ rlen > 0

====
